---- MODULE Spec2Model ----
(***************************************************************************)
(* The GSS case-study notebooks as state machines.                         *)
(*                                                                         *)
(*   Spec          a kernel that runs 02_polviews.ipynb, or one that runs  *)
(*                 unfilled/04_worldview.ipynb, top to bottom              *)
(*   SpecLowess    a kernel that calls make_lowess on a series             *)
(*   SpecDownload  a kernel that calls download on URLs, again and again   *)
(*                                                                         *)
(* A state is the kernel's namespace: the loaded DataFrame and the names   *)
(* the cells bind.  Every cell is one action.  The library calls the cells *)
(* make (Series.replace, Pmf.from_seq, groupby(...).mean(), pivot_table)   *)
(* are operators that compute what the call computes on the values the     *)
(* cell passes.  Numbers are float64 values of small integer codes and of  *)
(* quotients of them, kept as reduced fractions.                           *)
(***************************************************************************)
EXTENDS Integers, Sequences, FiniteSets, TLC

(* ------------------------------ bounds --------------------------------- *)

\* most rows in the table read by 02_polviews.ipynb
MaxRows == 3

\* most rows in a table read by 04_worldview.ipynb
MaxRowsW == 2

(* --------------------- values held by a column ------------------------- *)

RECURSIVE GCD(_, _)
GCD(a, b) == IF b = 0 THEN a ELSE GCD(b, a % b)

\* the missing marker (float nan)
NaN == [t |-> "nan"]

\* the float n/d, n >= 0, d > 0
Frac(n, d) == LET g == GCD(n, d) IN [t |-> "num", n |-> n \div g, d |-> d \div g]

\* an integer code
Num(k) == [t |-> "num", n |-> k, d |-> 1]

\* a str label
Str(s) == [t |-> "str", s |-> s]

isna(v) == v.t = "nan"

notna(v) == v.t # "nan"

FracAdd(a, b) == Frac(a.n * b.d + b.n * a.d, a.d * b.d)

FracLess(a, b) == a.n * b.d < b.n * a.d

FracLeq(a, b) == a.n * b.d <= b.n * a.d

\* Python's order of the str labels the notebooks use
StrOrder ==
    << "Conservative", "Extremely conservative", "Extremely liberal", "Liberal",
       "Moderate", "Slightly conservative", "Slightly liberal" >>

StrRank(s) == CHOOSE i \in 1..Len(StrOrder) : StrOrder[i] = s

\* a < b between two values of one type
Less(a, b) ==
    IF a.t = "num" THEN FracLess(a, b) ELSE StrRank(a.s) < StrRank(b.s)

\* '<' raises TypeError between a float and a str
Comparable(a, b) == a.t = b.t

(* ------------------------- sequence helpers ---------------------------- *)

Range(s) == {s[i] : i \in 1..Len(s)}

Front(s) == SubSeq(s, 1, Len(s) - 1)

Last(s) == s[Len(s)]

\* the positions of a boolean mask that are True, ascending
RECURSIVE PosUpTo(_, _)
PosUpTo(mask, n) ==
    IF n = 0 THEN << >>
    ELSE IF mask[n] THEN Append(PosUpTo(mask, n - 1), n)
    ELSE PosUpTo(mask, n - 1)

Where(mask) == PosUpTo(mask, Len(mask))

\* col.iloc[idx]
Take(col, idx) == [i \in 1..Len(idx) |-> col[idx[i]]]

\* the distinct values of s in order of first appearance
RECURSIVE Unique(_)
Unique(s) ==
    IF Len(s) = 0 THEN << >>
    ELSE LET u == Unique(Front(s))
         IN  IF Last(s) \in Range(u) THEN u ELSE Append(u, Last(s))

\* v inserted into the ascending sequence s
RECURSIVE Insert(_, _)
Insert(v, s) ==
    IF Len(s) = 0 THEN << v >>
    ELSE IF Less(v, Head(s)) THEN << v >> \o s
    ELSE << Head(s) >> \o Insert(v, Tail(s))

RECURSIVE SortValues(_)
SortValues(s) ==
    IF Len(s) = 0 THEN << >> ELSE Insert(Last(s), SortValues(Front(s)))

\* sorting raises TypeError when the values are floats and strs
Sortable(s) == \A i, j \in 1..Len(s) : Comparable(s[i], s[j])

RECURSIVE CountIn(_, _)
CountIn(s, v) ==
    IF Len(s) = 0 THEN 0
    ELSE (IF Head(s) = v THEN 1 ELSE 0) + CountIn(Tail(s), v)

DropNa(s) == Take(s, Where([i \in 1..Len(s) |-> notna(s[i])]))

(* -------------------------- library calls ------------------------------ *)

\* Series.replace(d) with every unmapped value turned into the missing marker
Replace_UnmappedToNaN(col, d) ==
    [i \in 1..Len(col) |-> IF col[i] \in DOMAIN d THEN d[col[i]] ELSE NaN]

\* Series.replace(d): a value that is a key of d becomes d[value]; every other
\* value, a missing one included, is kept as it is
Replace(col, d) ==
    [i \in 1..Len(col) |-> IF col[i] \in DOMAIN d THEN d[col[i]] ELSE col[i]]

\* Series.value_counts(sort=False, dropna=True): the counts of the distinct
\* non-missing values, keyed by value
ValueCounts(s) ==
    LET keys == Unique(DropNa(s))
    IN  [i \in 1..Len(keys) |-> [key |-> keys[i], val |-> CountIn(s, keys[i])]]

\* Series.value_counts(dropna=False): the counts of the distinct values, the
\* missing one among them, keyed by value
ValueCountsAll(s) ==
    LET keys == Unique(s)
    IN  [i \in 1..Len(keys) |-> [key |-> keys[i], val |-> CountIn(s, keys[i])]]

\* Series.sort_index() of a Series whose keys are distinct
SortIndex(series) ==
    LET keys == SortValues([i \in 1..Len(series) |-> series[i].key])
    IN  [i \in 1..Len(keys) |->
            CHOOSE e \in Range(series) : e.key = keys[i]]

RECURSIVE SumVal(_)
SumVal(series) ==
    IF Len(series) = 0 THEN 0 ELSE Head(series).val + SumVal(Tail(series))

\* Pmf.normalize(): every count divided by the total of the counts
Normalize(series) ==
    LET total == SumVal(series)
    IN  [i \in 1..Len(series) |->
            [key |-> series[i].key, val |-> Frac(series[i].val, total)]]

\* Pmf.from_seq dividing by the number of rows, the missing ones included
Pmf_from_seq_OverAllRows(s) ==
    LET series == SortIndex(ValueCounts(s))
    IN  [i \in 1..Len(series) |->
            [key |-> series[i].key, val |-> Frac(series[i].val, Len(s))]]

\* Pmf.from_seq with value_counts(dropna=False): the missing marker is a key
Pmf_from_seq_KeepNa(s) ==
    LET series == SortIndex(ValueCounts(s))
        n == CountIn(s, NaN)
    IN  Normalize(IF n > 0 THEN Append(series, [key |-> NaN, val |-> n])
                  ELSE series)

\* Pmf.from_seq(seq): value_counts, sort_index, normalize
Pmf_from_seq(s) == Normalize(SortIndex(ValueCounts(s)))

\* Pmf.from_seq raises TypeError when it sorts floats and strs
Pmf_raises(s) == ~Sortable(DropNa(s))

\* DataFrame.groupby(by) keeping only the last row of every key
GroupBy_LastRowOnly(df, by) ==
    LET keys == SortValues(Unique(DropNa(df[by])))
    IN  [i \in 1..Len(keys) |->
            [key |-> keys[i],
             idx |-> << Last(Where([r \in 1..Len(df[by]) |-> df[by][r] = keys[i]])) >>]]

\* DataFrame.groupby(by, sort=False): groups in order of first appearance
GroupBy_Unsorted(df, by) ==
    LET keys == Unique(DropNa(df[by]))
    IN  [i \in 1..Len(keys) |->
            [key |-> keys[i],
             idx |-> Where([r \in 1..Len(df[by]) |-> df[by][r] = keys[i]])]]

\* DataFrame.groupby(by): one group per distinct non-missing key (dropna=True),
\* in ascending key order (sort=True), each holding the positions of its rows
GroupBy(df, by) ==
    LET keys == SortValues(Unique(DropNa(df[by])))
    IN  [i \in 1..Len(keys) |->
            [key |-> keys[i],
             idx |-> Where([r \in 1..Len(df[by]) |-> df[by][r] = keys[i]])]]

\* the sum of the non-missing values
RECURSIVE NanSum(_)
NanSum(vals) ==
    IF Len(vals) = 0 THEN Num(0)
    ELSE IF isna(Head(vals)) THEN NanSum(Tail(vals))
    ELSE FracAdd(Head(vals), NanSum(Tail(vals)))

\* Series.count(): the number of non-missing values
RECURSIVE Nobs(_)
Nobs(vals) ==
    IF Len(vals) = 0 THEN 0
    ELSE (IF isna(Head(vals)) THEN 0 ELSE 1) + Nobs(Tail(vals))

\* a mean that counts every missing value as 0
Mean_NaNAsZero(vals) ==
    IF Len(vals) = 0 THEN NaN
    ELSE Frac(NanSum(vals).n, NanSum(vals).d * Len(vals))

\* a mean that is 0 when no value is left
Mean_EmptyIsZero(vals) ==
    IF Nobs(vals) = 0 THEN Num(0)
    ELSE Frac(NanSum(vals).n, NanSum(vals).d * Nobs(vals))

\* mean(skipna=True): the sum of the non-missing values over their number,
\* nan when there is none
Mean(vals) ==
    IF Nobs(vals) = 0 THEN NaN
    ELSE Frac(NanSum(vals).n, NanSum(vals).d * Nobs(vals))

\* SeriesGroupBy.mean(): a Series keyed by group key
GroupMean(df, groups, col) ==
    [i \in 1..Len(groups) |->
        [key |-> groups[i].key, val |-> Mean(Take(df[col], groups[i].idx))]]

\* the values of the set S, ascending
RECURSIVE SortedSeqOf(_)
SortedSeqOf(S) ==
    IF S = {} THEN << >>
    ELSE LET m == CHOOSE x \in S : \A y \in S : ~Less(y, x)
         IN  << m >> \o SortedSeqOf(S \ {m})

\* the rows of df whose index and columns keys are p
PairRows(df, index, columns, p) ==
    Where([r \in 1..Len(df[index]) |->
              df[index][r] = p[1] /\ df[columns][r] = p[2]])

\* the (index, columns) groups of df: rows with a missing key are in none
PairGroups(df, index, columns) ==
    {<< df[index][r], df[columns][r] >> : r \in
        {q \in 1..Len(df[index]) : notna(df[index][q]) /\ notna(df[columns][q])}}

\* pivot_table that keeps the groups whose mean is missing
PivotTable_KeepEmptyGroups(df, values, index, columns) ==
    LET agg(p) == Mean(Take(df[values], PairRows(df, index, columns, p)))
        kept == PairGroups(df, index, columns)
        rows == SortedSeqOf({p[1] : p \in kept})
        cols == SortedSeqOf({p[2] : p \in kept})
    IN  [index |-> rows, columns |-> cols,
         data |-> [p \in Range(rows) \X Range(cols) |->
                      IF p \in kept THEN agg(p) ELSE NaN]]

\* DataFrame.pivot_table(values, index, columns, aggfunc='mean'), dropna=True:
\* group by (index, columns), take the mean of values in every group, drop
\* the groups whose mean is missing, unstack the columns key, sort the
\* columns, drop the columns that are all missing
PivotTable(df, values, index, columns) ==
    LET agg(p) == Mean(Take(df[values], PairRows(df, index, columns, p)))
        kept == {p \in PairGroups(df, index, columns) : notna(agg(p))}
        rows == SortedSeqOf({p[1] : p \in kept})
        all == SortedSeqOf({p[2] : p \in kept})
        cell(p) == IF p \in kept THEN agg(p) ELSE NaN
        cols == SelectSeq(all, LAMBDA c : \E y \in Range(rows) : notna(cell(<< y, c >>)))
    IN  [index |-> rows, columns |-> cols,
         data |-> [p \in Range(rows) \X Range(cols) |-> cell(p)]]

\* the pairs (index[r], columns[r]) of the rows r where neither is missing
CrossPairs(index, columns) ==
    {<< index[r], columns[r] >> : r \in
        {q \in 1..Len(index) : notna(index[q]) /\ notna(columns[q])}}

\* the number of rows r with index[r] = p[1] and columns[r] = p[2]
CrossCount(index, columns, p) ==
    Cardinality({r \in 1..Len(index) : index[r] = p[1] /\ columns[r] = p[2]})

\* pd.crosstab with a row for every value of index, also for the values whose
\* rows all have a missing columns value
Crosstab_EveryIndexValue(index, columns) ==
    LET kept == CrossPairs(index, columns)
        rows == SortedSeqOf({v \in Range(index) : notna(v)})
        cols == SortedSeqOf({p[2] : p \in kept})
    IN  [index |-> rows, columns |-> cols,
         data |-> [p \in Range(rows) \X Range(cols) |-> CrossCount(index, columns, p)]]

\* pd.crosstab that marks the pairs that occur instead of counting their rows
Crosstab_Occurs(index, columns) ==
    LET kept == CrossPairs(index, columns)
        rows == SortedSeqOf({p[1] : p \in kept})
        cols == SortedSeqOf({p[2] : p \in kept})
    IN  [index |-> rows, columns |-> cols,
         data |-> [p \in Range(rows) \X Range(cols) |-> IF p \in kept THEN 1 ELSE 0]]

\* pd.crosstab(index, columns): pivot_table of a dummy column with aggfunc=len
\* and fill_value=0: group by (index, columns), the rows with a missing key in
\* no group; count the rows of every group; unstack the columns key, a pair
\* without rows filled with 0; rows and columns in ascending order
Crosstab(index, columns) ==
    LET kept == CrossPairs(index, columns)
        rows == SortedSeqOf({p[1] : p \in kept})
        cols == SortedSeqOf({p[2] : p \in kept})
    IN  [index |-> rows, columns |-> cols,
         data |-> [p \in Range(rows) \X Range(cols) |-> CrossCount(index, columns, p)]]

\* pd.crosstab raises TypeError when it sorts column keys that are floats and strs
Crosstab_raises(index, columns) ==
    \E p, q \in CrossPairs(index, columns) : ~Comparable(p[2], q[2])

\* the sum of row y of a table of counts
RECURSIVE RowSum(_, _, _)
RowSum(tb, y, k) ==
    IF k = 0 THEN 0 ELSE tb.data[<< y, tb.columns[k] >>] + RowSum(tb, y, k - 1)

\* normalize that divides every count by the total of the whole table
Normalize_All(tb) ==
    LET total(y) == RowSum(tb, y, Len(tb.columns))
        RECURSIVE grand(_)
        grand(k) == IF k = 0 THEN 0 ELSE total(tb.index[k]) + grand(k - 1)
    IN  [index |-> tb.index, columns |-> tb.columns,
         data |-> [p \in DOMAIN tb.data |->
                      IF grand(Len(tb.index)) = 0 THEN Num(0)
                      ELSE Frac(tb.data[p], grand(Len(tb.index)))]]

\* _normalize(table, normalize="index"): every row divided by its sum, then
\* fillna(0): the 0/0 of a row whose sum is 0 becomes 0
Normalize_Index(tb) ==
    LET total(y) == RowSum(tb, y, Len(tb.columns))
    IN  [index |-> tb.index, columns |-> tb.columns,
         data |-> [p \in DOMAIN tb.data |->
                      IF total(p[1]) = 0 THEN Num(0)
                      ELSE Frac(tb.data[p], total(p[1]))]]

(* ------------------------------ lowess --------------------------------- *)

\* the points lowess fits, left in the order of the series
LowessPoints_Unsorted(series) == SelectSeq(series, LAMBDA e : notna(e.val))

\* the points lowess(y, x) fits: missing='drop' leaves out the points whose y
\* is missing, and np.argsort(x) puts the others in ascending x
LowessPoints(series) == SortIndex(SelectSeq(series, LAMBDA e : notna(e.val)))

\* the points of one local regression among n: int(frac * n + 1e-10) with
\* frac = 2/3, conformed to 2 <= k <= n
Neighbours(n) ==
    LET k == (2 * n) \div 3
    IN  IF n < 2 THEN n ELSE IF k < 2 THEN 2 ELSE k

\* update_neighborhood: the window of k points starts at l and slides right
\* while the point after it is nearer to x[i] than its first point
RECURSIVE Slide(_, _, _)
Slide(pts, i, l) ==
    LET k == Neighbours(Len(pts))
    IN  IF l + k <= Len(pts) /\ 2 * pts[i].key.n > pts[l].key.n + pts[l + k].key.n
        THEN Slide(pts, i, l + 1)
        ELSE l

\* the first point of the window of x[i]: the slide starts where the window
\* of x[i - 1] ended
RECURSIVE LeftEnd(_, _)
LeftEnd(pts, i) == Slide(pts, i, IF i = 1 THEN 1 ELSE LeftEnd(pts, i - 1))

Window(pts, i) == LeftEnd(pts, i)..(LeftEnd(pts, i) + Neighbours(Len(pts)) - 1)

Distance(pts, i, j) ==
    IF pts[j].key.n >= pts[i].key.n THEN pts[j].key.n - pts[i].key.n
    ELSE pts[i].key.n - pts[j].key.n

\* the radius of the window: the distance from x[i] to its farthest point
Radius(pts, i) ==
    LET l == LeftEnd(pts, i)
        h == l + Neighbours(Len(pts)) - 1
    IN  IF Distance(pts, i, l) >= Distance(pts, i, h) THEN Distance(pts, i, l)
        ELSE Distance(pts, i, h)

\* the points of the window whose weight is positive: tricube(d / radius) is
\* 0 at the radius, and the residual weight rw[j] is 0 or 1
Weighted(pts, i, rw) ==
    {j \in Window(pts, i) : Distance(pts, i, j) < Radius(pts, i) /\ rw[j] = 1}

\* tricube(d / r) = (1 - (d / r)^3)^3, in units of 1 / r^9
Tricube(d, r) ==
    LET c == r * r * r - d * d * d IN c * c * c

RECURSIVE SetSum(_, _)
SetSum(S, f) ==
    IF S = {} THEN 0
    ELSE LET j == CHOOSE x \in S : TRUE IN f[j] + SetSum(S \ {j}, f)

RECURSIVE LCM(_, _)
LCM(S, f) ==
    IF S = {} THEN 1
    ELSE LET j == CHOOSE x \in S : TRUE
             m == LCM(S \ {j}, f)
         IN  (f[j] * m) \div GCD(f[j], m)

\* calculate_y_fit with the weighted mean of y in place of the regression line
LocalRegression_Mean(pts, i, S) ==
    LET r == Radius(pts, i)
        w == [j \in S |-> Tricube(Distance(pts, i, j), r)]
        D == LCM(S \cup {i}, [j \in S \cup {i} |-> pts[j].val.d])
        Y == [j \in S \cup {i} |-> pts[j].val.n * (D \div pts[j].val.d)]
    IN  Frac(SetSum(S, [j \in S |-> w[j] * Y[j]]), SetSum(S, w) * D)

\* calculate_y_fit: the value at x[i] of the least-squares line through the
\* points S with their tricube weights w:  sum of p[j] * y[j], where
\* p[j] = w[j] * (1 + (x[i] - xbar) * (x[j] - xbar) / sqdev) / sum(w).
\* With dx[j] = x[j] - x[i], A = sum w, B = sum w dx, C = sum w dx^2 this is
\* p[j] = w[j] * (C - B * dx[j]) / (A * C - B^2), and as the p[j] sum to 1 the
\* value is y[i] + sum of p[j] * (y[j] - y[i]).
LocalRegression(pts, i, S) ==
    LET r == Radius(pts, i)
        w == [j \in S |-> Tricube(Distance(pts, i, j), r)]
        dx == [j \in S |-> pts[j].key.n - pts[i].key.n]
        A == SetSum(S, w)
        B == SetSum(S, [j \in S |-> w[j] * dx[j]])
        C == SetSum(S, [j \in S |-> w[j] * dx[j] * dx[j]])
        D == LCM(S \cup {i}, [j \in S \cup {i} |-> pts[j].val.d])
        Y == [j \in S \cup {i} |-> pts[j].val.n * (D \div pts[j].val.d)]
        num == SetSum(S, [j \in S |-> w[j] * (C - B * dx[j]) * (Y[j] - Y[i])])
    IN  FracAdd(pts[i].val, Frac(num, (A * C - B * B) * D))

\* one fit of y[i].  calculate_weights finds the regression not ok when no
\* weight is positive or exactly one weight is not 0; a radius of 0 (a single
\* point) makes the one weight nan, which is not 0.  calculate_y_fit then
\* skips the regression and the fit is y[i].
LocalFit(pts, i, rw) ==
    LET S == Weighted(pts, i, rw)
    IN  IF Radius(pts, i) = 0 \/ Cardinality(S) <= 1 THEN pts[i].val
        ELSE LocalRegression(pts, i, S)

\* calculate_residual_weights when the median of the absolute residuals is
\* 0, that is when more than half of them are: bisquare gives a point without
\* residual the weight 1 and every other point the weight 0
ResidualWeights(pts, fits) ==
    LET zero == {j \in 1..Len(pts) : fits[j] = pts[j].val}
    IN  CASE Cardinality(zero) >= Len(pts) \div 2 + 1 ->
                [j \in 1..Len(pts) |-> IF j \in zero THEN 1 ELSE 0]

\* the fits after more further passes, each with the residual weights of the
\* pass before
RECURSIVE Passes(_, _, _)
Passes(pts, fits, more) ==
    IF more = 0 THEN fits
    ELSE LET rw == ResidualWeights(pts, fits)
         IN  Passes(pts, [j \in 1..Len(pts) |-> LocalFit(pts, j, rw)], more - 1)

\* lowess with the weighted mean of y in place of the regression line, in a
\* single pass
Lowess_Mean(pts) ==
    [j \in 1..Len(pts) |->
        LET S == Weighted(pts, j, [q \in 1..Len(pts) |-> 1])
        IN  [key |-> pts[j].key,
             val |-> IF Radius(pts, j) = 0 \/ Cardinality(S) <= 1 THEN pts[j].val
                     ELSE LocalRegression_Mean(pts, j, S)]]

\* lowess(y, x) with frac = 2/3, it = 3, delta = 0: a first pass with every
\* residual weight 1, then three passes with the residual weights of the pass
\* before; the fitted y at every x, in ascending x
Lowess(pts) ==
    LET first == [j \in 1..Len(pts) |-> LocalFit(pts, j, [q \in 1..Len(pts) |-> 1])]
        fits == Passes(pts, first, 3)
    IN  [j \in 1..Len(pts) |-> [key |-> pts[j].key, val |-> fits[j]]]

\* make_lowess(series): what the call can do.  It returns the curve
\* pd.Series(data, index=index) of lowess(series.values, series.index.values).
\* Without a point left, lowess indexes its empty arrays out of bounds
\* (boundscheck is off): it returns an empty curve or the process dies.
make_lowess(series) ==
    LET pts == LowessPoints(series)
    IN  IF Len(pts) = 0
        THEN {[raised |-> "", curve |-> << >>],
              [raised |-> "SegmentationFault", curve |-> << >>]}
        ELSE {[raised |-> "", curve |-> Lowess(pts)]}

\* plot_series_lowess(series, color): series.plot(...);
\* smooth = make_lowess(series); smooth.plot(...).  The plots leave no state.
plot_series_lowess(series) == make_lowess(series)

\* table[col]: the column of a table as a Series by year
TableColumn(tb, c) ==
    [i \in 1..Len(tb.index) |->
        [key |-> tb.index[i], val |-> tb.data[<< tb.index[i], c >>]]]

\* plot_columns_lowess(table, columns, color_map) from column i on: series =
\* table[col] raises KeyError when the table has no column col; the curve of
\* the column plotted last, prev before the first, is what the call leaves
RECURSIVE plot_columns_from(_, _, _, _)
plot_columns_from(tb, columns, i, prev) ==
    IF i > Len(columns) THEN {[raised |-> "", curve |-> prev]}
    ELSE IF Str(columns[i]) \notin Range(tb.columns)
         THEN {[raised |-> "KeyError", curve |-> prev]}
    ELSE UNION {IF o.raised # "" THEN {[raised |-> o.raised, curve |-> prev]}
                ELSE plot_columns_from(tb, columns, i + 1, o.curve) :
                    o \in plot_series_lowess(TableColumn(tb, Str(columns[i])))}

plot_columns_lowess(tb, columns, prev) == plot_columns_from(tb, columns, 1, prev)

(* ------------------------- the kernel's state -------------------------- *)

VARIABLES
    pc,           \* the cell that runs next
    it,           \* the iteration a for loop is at
    error,        \* the exception that stopped the run, "" while there is none
    datafile,     \* gss_eds.3.hdf5: the DataFrame stored under every key read
    gss,          \* the DataFrame loaded from key gss0: column name -> values
    polviews74,   \* 02: polviews of the rows of 1974
    polviews21,   \* 02: polviews of the rows of 2018
    pmf74,        \* 02: Pmf of polviews74
    pmf21,        \* 02: Pmf of polviews21
    gss_by_year,  \* 02: gss.groupby("year")
    mean_series,  \* 02: mean of polviews by year
    polviews7,    \* 02: polviews recoded with d7
    given,        \* the series a call of make_lowess from the prompt is given
    files,        \* the working directory: file name -> content
    fetched,      \* the calls of urlretrieve so far, in order
    smooth,       \* the curve make_lowess returned last
    xtab,         \* 02: cross tabulation of year and polviews
    xtab_norm,    \* 02: cross tabulation normalized by row
    d_recode,     \* 04: the recode map of the chosen variable
    pmf,          \* 04: the Pmf bound last
    by_polviews,  \* 04: gss.groupby('polviews3')
    time_series,  \* 04: mean of the recoded variable by year
    df,           \* 04: the resampled DataFrame of the loop
    table         \* 04: the pivot table plot_by_polviews builds

vars ==
    << pc, it, error, given, files, fetched, datafile, gss, polviews74, polviews21, pmf74, pmf21,
       gss_by_year, mean_series, polviews7, smooth, xtab, xtab_norm, d_recode,
       pmf, by_polviews, time_series, df, table >>

vars02 ==
    << polviews74, polviews21, pmf74, pmf21, gss_by_year, mean_series, polviews7,
       xtab, xtab_norm >>

vars04 == << d_recode, pmf, by_polviews, time_series, df, table >>

\* a name no cell has bound yet
Unbound == << >>

(* ----------------------- 02_polviews.ipynb ----------------------------- *)

\* the survey years the cells of 02_polviews.ipynb select
Years == {Num(1974), Num(2018)}

\* polviews as stored: a code of the 7-point scale, a code outside it (the
\* partyid exercise has 0), or missing
PolviewsCodes == {NaN, Num(0), Num(1), Num(4)}

TableOf(n, rows) ==
    [year |-> [i \in 1..n |-> rows[i][1]], polviews |-> [i \in 1..n |-> rows[i][2]]]

d7 ==
    (Num(1) :> Str("Extremely liberal")) @@ (Num(2) :> Str("Liberal")) @@
    (Num(3) :> Str("Slightly liberal")) @@ (Num(4) :> Str("Moderate")) @@
    (Num(5) :> Str("Slightly conservative")) @@ (Num(6) :> Str("Conservative")) @@
    (Num(7) :> Str("Extremely conservative"))

\* the tables of the two worked examples, as (year, polviews) of every row
ExampleRows ==
    { << << 1974, 1 >>, << 1974, 2 >>, << 1974, 2 >>,
         << 2018, 4 >>, << 2018, 4 >>, << 2018, 6 >> >>,
      << << 1974, 1 >>, << 1974, 2 >>, << 2018, 1 >> >> }

ExampleTable(rows) ==
    TableOf(Len(rows), [i \in 1..Len(rows) |-> << Num(rows[i][1]), Num(rows[i][2]) >>])

Examples == {ExampleTable(rows) : rows \in ExampleRows}

\* the cells of 02_polviews.ipynb that bind a name or may raise, in the order
\* they run
Cells ==
    << "read_hdf", "select74", "select21", "pmf74", "pmf21", "groupby", "mean",
       "lowess", "xtab", "xtab_norm", "replace7", "values7", "xtab_norm7",
       "plot_xtab", "done" >>

CellIndex(cells, c) == CHOOSE i \in 1..Len(cells) : cells[i] = c

NextCell(cells, c) == cells[CellIndex(cells, c) + 1]

\* the cell that runs next comes after cell c in cells: c has run to its end
RanIn(cells, c) ==
    \E i, j \in 1..Len(cells) : i < j /\ cells[i] = c /\ cells[j] = pc

Ran(c) == RanIn(Cells, c)

\* the kernel runs cell c next, and no exception has stopped the run
AtCell(c) == pc = c /\ error = ""

InitPolviews ==
    /\ pc = "read_hdf"
    /\ it = 0
    /\ error = ""
    /\ given = Unbound /\ files = Unbound /\ fetched = Unbound
    /\ \/ \E n \in 0..MaxRows : \E rows \in [1..n -> Years \X PolviewsCodes] :
              datafile = [k \in {"gss0"} |-> TableOf(n, rows)]
       \/ \E t \in Examples : datafile = [k \in {"gss0"} |-> t]
    /\ gss = Unbound
    /\ polviews74 = Unbound /\ polviews21 = Unbound
    /\ pmf74 = Unbound /\ pmf21 = Unbound
    /\ gss_by_year = Unbound /\ mean_series = Unbound /\ polviews7 = Unbound
    /\ smooth = Unbound /\ xtab = Unbound /\ xtab_norm = Unbound
    /\ d_recode = Unbound /\ pmf = Unbound /\ by_polviews = Unbound
    /\ time_series = Unbound /\ df = Unbound /\ table = Unbound

\* gss = pd.read_hdf(datafile, "gss0")
ReadHdf ==
    /\ AtCell("read_hdf")
    /\ UNCHANGED << given, files, fetched >>
    /\ gss' = datafile["gss0"]
    /\ pc' = NextCell(Cells, pc)
    /\ UNCHANGED << it, error, datafile, polviews74, polviews21, pmf74, pmf21,
                    gss_by_year, mean_series, polviews7,
                    smooth, xtab, xtab_norm, vars04 >>

\* polviews[gss["year"] == y]
SelectYear(y) ==
    Take(gss["polviews"], Where([r \in 1..Len(gss["year"]) |-> gss["year"][r] = Num(y)]))

\* polviews = gss["polviews"]; year74 = gss["year"] == 1974;
\* polviews74 = polviews[year74]
Select74 ==
    /\ AtCell("select74")
    /\ UNCHANGED << given, files, fetched >>
    /\ polviews74' = SelectYear(1974)
    /\ pc' = NextCell(Cells, pc)
    /\ UNCHANGED << it, error, datafile, gss, polviews21, pmf74, pmf21,
                    gss_by_year, mean_series, polviews7,
                    smooth, xtab, xtab_norm, vars04 >>

\* year21 = gss["year"] == 2018; polviews21 = polviews[year21]
Select21 ==
    /\ AtCell("select21")
    /\ UNCHANGED << given, files, fetched >>
    /\ polviews21' = SelectYear(2018)
    /\ pc' = NextCell(Cells, pc)
    /\ UNCHANGED << it, error, datafile, gss, polviews74, pmf74, pmf21,
                    gss_by_year, mean_series, polviews7,
                    smooth, xtab, xtab_norm, vars04 >>

\* pmf74 = Pmf.from_seq(polviews74)
Pmf74 ==
    /\ AtCell("pmf74")
    /\ UNCHANGED << given, files, fetched >>
    /\ IF Pmf_raises(polviews74)
       THEN error' = "TypeError" /\ UNCHANGED << pmf74, pc >>
       ELSE pmf74' = Pmf_from_seq(polviews74) /\ pc' = NextCell(Cells, pc)
            /\ UNCHANGED error
    /\ UNCHANGED << it, datafile, gss, polviews74, polviews21, pmf21,
                    gss_by_year, mean_series, polviews7,
                    smooth, xtab, xtab_norm, vars04 >>

\* pmf21 = Pmf.from_seq(polviews21)
Pmf21 ==
    /\ AtCell("pmf21")
    /\ UNCHANGED << given, files, fetched >>
    /\ IF Pmf_raises(polviews21)
       THEN error' = "TypeError" /\ UNCHANGED << pmf21, pc >>
       ELSE pmf21' = Pmf_from_seq(polviews21) /\ pc' = NextCell(Cells, pc)
            /\ UNCHANGED error
    /\ UNCHANGED << it, datafile, gss, polviews74, polviews21, pmf74,
                    gss_by_year, mean_series, polviews7,
                    smooth, xtab, xtab_norm, vars04 >>

\* gss_by_year = gss.groupby("year")
GroupByYear ==
    /\ AtCell("groupby")
    /\ UNCHANGED << given, files, fetched >>
    /\ gss_by_year' = GroupBy(gss, "year")
    /\ pc' = NextCell(Cells, pc)
    /\ UNCHANGED << it, error, datafile, gss, polviews74, polviews21, pmf74,
                    pmf21, mean_series, polviews7,
                    smooth, xtab, xtab_norm, vars04 >>

\* polviews_by_year = gss_by_year["polviews"];
\* mean_series = polviews_by_year.mean()
MeanSeries ==
    /\ AtCell("mean")
    /\ UNCHANGED << given, files, fetched >>
    /\ mean_series' = GroupMean(gss, gss_by_year, "polviews")
    /\ pc' = NextCell(Cells, pc)
    /\ UNCHANGED << it, error, datafile, gss, polviews74, polviews21, pmf74,
                    pmf21, gss_by_year, polviews7,
                    smooth, xtab, xtab_norm, vars04 >>

\* mean_series = gss_by_year["polviews"].mean();
\* plot_series_lowess(mean_series, "C2")
PlotMeanSeries ==
    /\ AtCell("lowess")
    /\ UNCHANGED << given, files, fetched >>
    /\ mean_series' = GroupMean(gss, gss_by_year, "polviews")
    /\ \E o \in plot_series_lowess(mean_series') :
           /\ IF o.raised # ""
              THEN error' = o.raised /\ UNCHANGED << smooth, pc >>
              ELSE smooth' = o.curve /\ pc' = NextCell(Cells, pc) /\ UNCHANGED error
    /\ UNCHANGED << it, datafile, gss, polviews74, polviews21, pmf74,
                    pmf21, gss_by_year, polviews7, xtab, xtab_norm, vars04 >>

\* polviews7 = gss["polviews"].replace(d7)
Replace7 ==
    /\ AtCell("replace7")
    /\ UNCHANGED << given, files, fetched >>
    /\ polviews7' = Replace(gss["polviews"], d7)
    /\ pc' = NextCell(Cells, pc)
    /\ UNCHANGED << it, error, datafile, gss, polviews74, polviews21, pmf74,
                    pmf21, gss_by_year, mean_series,
                    smooth, xtab, xtab_norm, vars04 >>

\* values(series): series.value_counts().sort_index(), the counts of the
\* non-missing values in ascending order of the values
values(series) == SortIndex(ValueCounts(series))

\* sort_index raises TypeError when the values counted are floats and strs
values_raises(series) == ~Sortable(DropNa(series))

\* values(polviews7): the cell displays the counts and binds no name
Values7 ==
    /\ AtCell("values7")
    /\ UNCHANGED << given, files, fetched >>
    /\ IF values_raises(polviews7)
       THEN error' = "TypeError" /\ UNCHANGED pc
       ELSE pc' = NextCell(Cells, pc) /\ UNCHANGED error
    /\ UNCHANGED << it, datafile, gss, vars02, smooth, vars04 >>

\* year = gss["year"]; column = gss["polviews"]; xtab = pd.crosstab(year, column)
Xtab ==
    /\ AtCell("xtab")
    /\ UNCHANGED << given, files, fetched >>
    /\ xtab' = Crosstab(gss["year"], gss["polviews"])
    /\ pc' = NextCell(Cells, pc)
    /\ UNCHANGED << it, error, datafile, gss, polviews74, polviews21, pmf74,
                    pmf21, gss_by_year, mean_series, polviews7, smooth,
                    xtab_norm, vars04 >>

\* xtab_norm = pd.crosstab(year, column, normalize="index")
XtabNorm ==
    /\ AtCell("xtab_norm")
    /\ UNCHANGED << given, files, fetched >>
    /\ xtab_norm' = Normalize_Index(Crosstab(gss["year"], gss["polviews"]))
    /\ pc' = NextCell(Cells, pc)
    /\ UNCHANGED << it, error, datafile, gss, polviews74, polviews21, pmf74,
                    pmf21, gss_by_year, mean_series, polviews7, smooth, xtab,
                    vars04 >>

\* xtab_norm = pd.crosstab(year, polviews7, normalize="index")
XtabNorm7 ==
    /\ AtCell("xtab_norm7")
    /\ UNCHANGED << given, files, fetched >>
    /\ IF Crosstab_raises(gss["year"], polviews7)
       THEN error' = "TypeError" /\ UNCHANGED << xtab_norm, pc >>
       ELSE /\ xtab_norm' = Normalize_Index(Crosstab(gss["year"], polviews7))
            /\ pc' = NextCell(Cells, pc)
            /\ UNCHANGED error
    /\ UNCHANGED << it, datafile, gss, polviews74, polviews21, pmf74, pmf21,
                    gss_by_year, mean_series, polviews7, smooth, xtab, vars04 >>

\* the keys of color_map = dict(zip(columns, palette)): the seven labels
color_map7 == {d7[k] : k \in DOMAIN d7}

\* for name, column in xtab_norm.iteritems():
\*     plot_series_lowess(column, color_map[name])
\* from column i on: color_map[name] raises KeyError when name is no label;
\* the curve of the column plotted last, prev before the first, is what the
\* loop leaves
RECURSIVE plot_xtab_from(_, _, _)
plot_xtab_from(tb, i, prev) ==
    IF i > Len(tb.columns) THEN {[raised |-> "", curve |-> prev]}
    ELSE IF tb.columns[i] \notin color_map7
         THEN {[raised |-> "KeyError", curve |-> prev]}
    ELSE UNION {IF o.raised # "" THEN {[raised |-> o.raised, curve |-> prev]}
                ELSE plot_xtab_from(tb, i + 1, o.curve) :
                    o \in plot_series_lowess(TableColumn(tb, tb.columns[i]))}

\* the loop that plots every column of xtab_norm with its smooth curve
PlotXtab ==
    /\ AtCell("plot_xtab")
    /\ UNCHANGED << given, files, fetched >>
    /\ \E o \in plot_xtab_from(xtab_norm, 1, smooth) :
           /\ smooth' = o.curve
           /\ IF o.raised # ""
              THEN error' = o.raised /\ UNCHANGED pc
              ELSE pc' = NextCell(Cells, pc) /\ UNCHANGED error
    /\ UNCHANGED << it, datafile, gss, vars02, vars04 >>

(* --------------------- unfilled/04_worldview.ipynb --------------------- *)

\* the name of the column the reader chose
varname == "response"

\* polviews as the data set stores it: a code of the 7-point scale or missing
PolviewsCodesW == {NaN, Num(1), Num(5)}

\* the codes of the chosen variable
ResponseCodes == {NaN, Num(1), Num(2)}

TableOfW(n, rows) ==
    [c \in {"year", "polviews", varname} |->
        [i \in 1..n |-> rows[i][IF c = "year" THEN 1 ELSE IF c = "polviews" THEN 2 ELSE 3]]]

\* the recode maps the reader may have filled in: code 1 for the baseline
\* response and code 0 for the others, total on the codes or, with only the
\* baseline response 1 or 2 listed, not
RecodeMaps ==
    { (Num(1) :> Num(1)) @@ (Num(2) :> Num(0)),
      (Num(1) :> Num(1)),
      (Num(2) :> Num(1)) }

\* d_polviews without the entry of code 4
d_polviews_Without4 ==
    (Num(1) :> Str("Liberal")) @@ (Num(2) :> Str("Liberal")) @@
    (Num(3) :> Str("Liberal")) @@
    (Num(5) :> Str("Conservative")) @@ (Num(6) :> Str("Conservative")) @@
    (Num(7) :> Str("Conservative"))

d_polviews ==
    (Num(1) :> Str("Liberal")) @@ (Num(2) :> Str("Liberal")) @@
    (Num(3) :> Str("Liberal")) @@ (Num(4) :> Str("Moderate")) @@
    (Num(5) :> Str("Conservative")) @@ (Num(6) :> Str("Conservative")) @@
    (Num(7) :> Str("Conservative"))

\* the keys of the mapping from group to color
color_map == {"Conservative", "Moderate", "Liberal"}

\* the keys of the resampled DataFrames, the last one first
Keys_Reversed == << "gss2", "gss1", "gss0" >>

\* the keys of the resampled DataFrames in the file
Keys == << "gss0", "gss1", "gss2" >>

\* the tables a further resampling of the survey can hold, given the one under
\* gss0: as many rows, each one of the rows of the survey, in the order of
\* the survey
Resamples(t) ==
    LET n == Len(t["year"])
    IN  {[c \in DOMAIN t |-> Take(t[c], f)] :
            f \in {g \in [1..n -> 1..n] : \A i \in 1..(n - 1) : g[i] <= g[i + 1]}}

\* a survey with respondents of every group of polviews3, the least the loop
\* over the resamplings needs to get past its first table: the year and
\* polviews of its rows, whatever they answered
SurveyYears == << Num(1974), Num(1974), Num(2018), Num(2018) >>

SurveyPolviews == << Num(1), Num(4), Num(5), Num(5) >>

Surveys ==
    {[c \in {"year", "polviews", varname} |->
        IF c = "year" THEN SurveyYears ELSE IF c = "polviews" THEN SurveyPolviews ELSE a] :
            a \in [1..Len(SurveyYears) -> ResponseCodes \ {NaN}]}

\* the cells of 04_worldview.ipynb that bind a name, in the order they run
CellsW ==
    << "read_hdf_w", "pmf_column", "polviews3", "pmf_polviews3", "groupby_polviews",
       "group_pmfs", "recode", "time_series", "plot_time_series", "pivot",
       "plot_columns", "resample", "done_w" >>

RanW(c) == RanIn(CellsW, c)

InitWorldview ==
    /\ pc = "read_hdf_w"
    /\ it = 0
    /\ error = ""
    /\ given = Unbound /\ files = Unbound /\ fetched = Unbound
    /\ \/ \E n \in 0..MaxRowsW :
              \E rows \in [1..n -> Years \X PolviewsCodesW \X ResponseCodes] :
                  datafile = [k \in {"gss0"} |-> TableOfW(n, rows)]
       \/ \E t \in Surveys : datafile = [k \in {"gss0"} |-> t]
    /\ d_recode \in RecodeMaps
    /\ gss = Unbound
    /\ polviews74 = Unbound /\ polviews21 = Unbound
    /\ pmf74 = Unbound /\ pmf21 = Unbound
    /\ gss_by_year = Unbound /\ mean_series = Unbound /\ polviews7 = Unbound
    /\ smooth = Unbound /\ xtab = Unbound /\ xtab_norm = Unbound
    /\ pmf = Unbound /\ by_polviews = Unbound
    /\ time_series = Unbound /\ df = Unbound /\ table = Unbound

\* frame[name] = col
SetColumn(frame, name, col) ==
    [c \in DOMAIN frame \cup {name} |-> IF c = name THEN col ELSE frame[c]]

\* gss = pd.read_hdf(datafile, 'gss0')
ReadHdfW ==
    /\ AtCell("read_hdf_w")
    /\ UNCHANGED << given, files, fetched >>
    /\ gss' = datafile["gss0"]
    /\ pc' = NextCell(CellsW, pc)
    /\ UNCHANGED << it, error, datafile, vars02, smooth, d_recode, pmf, by_polviews,
                    time_series, df, table >>

\* column = gss[varname]; pmf = Pmf.from_seq(column)
PmfColumn ==
    /\ AtCell("pmf_column")
    /\ UNCHANGED << given, files, fetched >>
    /\ IF Pmf_raises(gss[varname])
       THEN error' = "TypeError" /\ UNCHANGED << pmf, pc >>
       ELSE pmf' = Pmf_from_seq(gss[varname]) /\ pc' = NextCell(CellsW, pc)
            /\ UNCHANGED error
    /\ UNCHANGED << it, datafile, gss, vars02, smooth, d_recode, by_polviews,
                    time_series, df, table >>

\* gss['polviews3'] = gss['polviews'].replace(d_polviews)
Polviews3 ==
    /\ AtCell("polviews3")
    /\ UNCHANGED << given, files, fetched >>
    /\ gss' = SetColumn(gss, "polviews3", Replace(gss["polviews"], d_polviews))
    /\ pc' = NextCell(CellsW, pc)
    /\ UNCHANGED << it, error, datafile, vars02, smooth, d_recode, pmf, by_polviews,
                    time_series, df, table >>

\* pmf = Pmf.from_seq(gss['polviews3'])
PmfPolviews3 ==
    /\ AtCell("pmf_polviews3")
    /\ UNCHANGED << given, files, fetched >>
    /\ IF Pmf_raises(gss["polviews3"])
       THEN error' = "TypeError" /\ UNCHANGED << pmf, pc >>
       ELSE pmf' = Pmf_from_seq(gss["polviews3"]) /\ pc' = NextCell(CellsW, pc)
            /\ UNCHANGED error
    /\ UNCHANGED << it, datafile, gss, vars02, smooth, d_recode, by_polviews,
                    time_series, df, table >>

\* by_polviews = gss.groupby('polviews3')
GroupByPolviews ==
    /\ AtCell("groupby_polviews")
    /\ UNCHANGED << given, files, fetched >>
    /\ by_polviews' = GroupBy(gss, "polviews3")
    /\ pc' = NextCell(CellsW, pc)
    /\ UNCHANGED << it, error, datafile, gss, vars02, smooth, d_recode, pmf,
                    time_series, df, table >>

\* group[varname] of the group the loop is at
GroupColumn(i) == Take(gss[varname], by_polviews[i].idx)

\* for name, group in by_polviews: pmf = Pmf.from_seq(group[varname]);
\* pmf.bar(label=name, color=color_map[name]): one iteration, or the end of
\* the loop
GroupPmfs ==
    /\ AtCell("group_pmfs")
    /\ UNCHANGED << given, files, fetched >>
    /\ IF it < Len(by_polviews)
       THEN /\ it' = it + 1
            /\ IF Pmf_raises(GroupColumn(it + 1))
               THEN error' = "TypeError" /\ UNCHANGED pmf
               ELSE /\ pmf' = Pmf_from_seq(GroupColumn(it + 1))
                    /\ error' = IF by_polviews[it + 1].key.s \in color_map
                                THEN error ELSE "KeyError"
            /\ UNCHANGED pc
       ELSE /\ it' = 0
            /\ pc' = NextCell(CellsW, pc)
            /\ UNCHANGED << pmf, error >>
    /\ UNCHANGED << datafile, gss, vars02, smooth, d_recode, by_polviews,
                    time_series, df, table >>

\* gss['recoded'] = column.replace(d_recode)
Recode ==
    /\ AtCell("recode")
    /\ UNCHANGED << given, files, fetched >>
    /\ gss' = SetColumn(gss, "recoded", Replace(gss[varname], d_recode))
    /\ pc' = NextCell(CellsW, pc)
    /\ UNCHANGED << it, error, datafile, vars02, smooth, d_recode, pmf, by_polviews,
                    time_series, df, table >>

\* by_year = gss.groupby('year'); time_series = by_year['recoded'].mean()
TimeSeries ==
    /\ AtCell("time_series")
    /\ UNCHANGED << given, files, fetched >>
    /\ time_series' = GroupMean(gss, GroupBy(gss, "year"), "recoded")
    /\ pc' = NextCell(CellsW, pc)
    /\ UNCHANGED << it, error, datafile, gss, vars02, smooth, d_recode, pmf,
                    by_polviews, df, table >>

\* plot_series_lowess(time_series, 'C1')
PlotTimeSeries ==
    /\ AtCell("plot_time_series")
    /\ UNCHANGED << given, files, fetched >>
    /\ \E o \in plot_series_lowess(time_series) :
           /\ IF o.raised # ""
              THEN error' = o.raised /\ UNCHANGED << smooth, pc >>
              ELSE smooth' = o.curve /\ pc' = NextCell(CellsW, pc) /\ UNCHANGED error
    /\ UNCHANGED << it, datafile, gss, vars02, d_recode, pmf, by_polviews,
                    time_series, df, table >>

\* table = gss.pivot_table(values='recoded', index='year',
\*                         columns='polviews3', aggfunc='mean')
Pivot ==
    /\ AtCell("pivot")
    /\ UNCHANGED << given, files, fetched >>
    /\ table' = PivotTable(gss, "recoded", "year", "polviews3")
    /\ pc' = NextCell(CellsW, pc)
    /\ UNCHANGED << it, error, datafile, gss, vars02, smooth, d_recode, pmf,
                    by_polviews, time_series, df >>

\* the columns plot_columns_lowess is asked for
columns == << "Conservative", "Moderate", "Liberal" >>

\* columns = ['Conservative', 'Moderate', 'Liberal'];
\* plot_columns_lowess(table, columns, color_map)
PlotColumns ==
    /\ AtCell("plot_columns")
    /\ UNCHANGED << given, files, fetched >>
    /\ \E o \in plot_columns_lowess(table, columns, smooth) :
           /\ smooth' = o.curve
           /\ IF o.raised # ""
              THEN error' = o.raised /\ UNCHANGED pc
              ELSE pc' = NextCell(CellsW, pc) /\ UNCHANGED error
    /\ UNCHANGED << it, datafile, gss, vars02, d_recode, pmf, by_polviews,
                    time_series, df, table >>

\* plot_by_polviews recoding the column of the variable in place
plot_by_polviews_InPlace(frame, var) ==
    LET f1 == SetColumn(frame, "polviews3", Replace(frame["polviews"], d_polviews))
        f2 == SetColumn(f1, var, Replace(f1[var], d_recode))
        f3 == SetColumn(f2, "recoded", f2[var])
        tb == PivotTable(f3, "recoded", "year", "polviews3")
    IN  [gss |-> f3, table |-> tb,
         raised |-> IF \A i \in 1..Len(columns) : Str(columns[i]) \in Range(tb.columns)
                    THEN "" ELSE "KeyError"]

\* plot_by_polviews(frame, varname): the frame with the two columns the call
\* adds to it, the pivot table, and the exception plot_columns_lowess raises
\* at table[col] when the table lacks one of the three columns
plot_by_polviews(frame, var) ==
    LET f1 == SetColumn(frame, "polviews3", Replace(frame["polviews"], d_polviews))
        f2 == SetColumn(f1, "recoded", Replace(f1[var], d_recode))
        tb == PivotTable(f2, "recoded", "year", "polviews3")
    IN  [gss |-> f2, table |-> tb,
         raised |-> IF \A i \in 1..Len(columns) : Str(columns[i]) \in Range(tb.columns)
                    THEN "" ELSE "KeyError"]

\* for key in ['gss0', 'gss1', 'gss2']: df = pd.read_hdf('gss_eds.3.hdf5', key);
\* plot_by_polviews(df, varname): one iteration, or the end of the loop.
\* A key read for the first time holds some resampling of the survey.
Resample ==
    /\ AtCell("resample")
    /\ UNCHANGED << given, files, fetched >>
    /\ IF it < Len(Keys)
       THEN LET key == Keys[it + 1]
                stored == IF key \in DOMAIN datafile THEN {datafile[key]}
                          ELSE Resamples(datafile["gss0"])
            IN  \E t \in stored :
                    LET r == plot_by_polviews(t, varname)
                    IN  \E o \in plot_columns_lowess(r.table, columns, smooth) :
                            /\ datafile' = IF key \in DOMAIN datafile THEN datafile
                                           ELSE datafile @@ (key :> t)
                            /\ df' = r.gss
                            /\ table' = r.table
                            /\ smooth' = o.curve
                            /\ error' = o.raised
                            /\ it' = it + 1
                            /\ UNCHANGED pc
       ELSE /\ it' = 0
            /\ pc' = NextCell(CellsW, pc)
            /\ UNCHANGED << datafile, df, table, smooth, error >>
    /\ UNCHANGED << gss, vars02, d_recode, pmf, by_polviews, time_series >>

(* ------------------------- the specification --------------------------- *)

Init == InitPolviews \/ InitWorldview

Next ==
    \/ ReadHdf
    \/ Select74
    \/ Select21
    \/ Pmf74
    \/ Pmf21
    \/ GroupByYear
    \/ MeanSeries
    \/ PlotMeanSeries
    \/ Xtab
    \/ XtabNorm
    \/ Replace7
    \/ Values7
    \/ XtabNorm7
    \/ PlotXtab
    \/ ReadHdfW
    \/ PmfColumn
    \/ Polviews3
    \/ PmfPolviews3
    \/ GroupByPolviews
    \/ GroupPmfs
    \/ Recode
    \/ TimeSeries
    \/ PlotTimeSeries
    \/ Pivot
    \/ PlotColumns
    \/ Resample

Spec == Init /\ [][Next]_vars

(* ---------------------- make_lowess from the prompt -------------------- *)

\* the longest series given to make_lowess, the longest one with missing
\* values, and the largest slope and intercept of the line its values are on
MaxPoints == 6

MaxGappy == 5

MaxSlope == 2

MaxIntercept == 1

\* the longest series given to make_lowess with its rows in any order
MaxPermuted == 3

\* the series y = a * x + b over x = 0, ..., n - 1, with y missing at the x in
\* gaps, in ascending x or (down) in descending x
LineSeries(n, a, b, gaps, down) ==
    [i \in 1..n |->
        LET x == IF down THEN n - i ELSE i - 1
        IN  [key |-> Num(x), val |-> IF x \in gaps THEN NaN ELSE Num(a * x + b)]]

\* the orders the rows of a series of n rows can be in
Orders(n) == {f \in [1..n -> 1..n] : \A i, j \in 1..n : f[i] = f[j] => i = j}

\* the series given: the rows of a line in ascending or descending x, and
\* those of a short one in every order
InputSeries ==
    UNION {{LineSeries(n, a, b, gaps, down) :
                a \in 0..MaxSlope, b \in 0..MaxIntercept,
                gaps \in IF n <= MaxGappy THEN SUBSET (0..(n - 1)) ELSE {{}},
                down \in BOOLEAN} : n \in 0..MaxPoints}
    \cup
    UNION {{Take(LineSeries(n, a, b, gaps, FALSE), f) :
                a \in 0..MaxSlope, b \in 0..MaxIntercept,
                gaps \in SUBSET (0..(n - 1)), f \in Orders(n)} : n \in 0..MaxPermuted}

\* a kernel that has run the cell defining make_lowess and holds a series
InitLowess ==
    /\ pc = "make_lowess"
    /\ it = 0
    /\ error = ""
    /\ given \in InputSeries
    /\ files = Unbound /\ fetched = Unbound
    /\ datafile = Unbound /\ gss = Unbound
    /\ polviews74 = Unbound /\ polviews21 = Unbound
    /\ pmf74 = Unbound /\ pmf21 = Unbound
    /\ gss_by_year = Unbound /\ mean_series = Unbound /\ polviews7 = Unbound
    /\ smooth = Unbound /\ xtab = Unbound /\ xtab_norm = Unbound
    /\ d_recode = Unbound /\ pmf = Unbound /\ by_polviews = Unbound
    /\ time_series = Unbound /\ df = Unbound /\ table = Unbound

\* smooth = make_lowess(given)
CallMakeLowess ==
    /\ pc = "make_lowess" /\ error = ""
    /\ \E o \in make_lowess(given) :
           IF o.raised # ""
           THEN error' = o.raised /\ UNCHANGED << smooth, pc >>
           ELSE smooth' = o.curve /\ pc' = "returned" /\ UNCHANGED error
    /\ UNCHANGED << it, given, files, fetched, datafile, gss, vars02, vars04 >>

SpecLowess == InitLowess /\ [][CallMakeLowess]_vars

(* ------------------------ download from the prompt --------------------- *)

\* most calls of download in a session
MaxCalls == 3

\* a URL as the sequence of the parts that its slashes separate, after the
\* scheme: the URLs the two notebooks download, and the URL of a directory,
\* which ends with a slash
Urls ==
    { << "github.com", "AllenDowney", "PoliticalAlignmentCaseStudy", "raw", "master",
         "gss_eds.3.hdf5" >>,
      << "github.com", "AllenDowney", "PoliticalAlignmentCaseStudy", "raw", "update2021",
         "gss_eds.3.hdf5" >>,
      << "github.com", "AllenDowney", "PoliticalAlignmentCaseStudy", "raw", "master", "" >> }

\* os.path.basename(url): what follows the last slash
basename(url) == url[Len(url)]

\* os.path.exists(filename): no file has the empty name
exists(filename) == filename \in DOMAIN files

\* what the server sends for a URL at the time of a call
Contents == {"version 1", "version 2"}

\* the content of a file whose retrieval broke off
Truncated == "truncated"

\* the names tempfile.NamedTemporaryFile gives, in the order it gives them
TempNames == << "tmp1", "tmp2", "tmp3", "tmp4" >>

\* the working directories a session can start in: without the data file
\* or with one of some content
Directories ==
    {[n \in S |-> c] : S \in SUBSET {"gss_eds.3.hdf5"}, c \in Contents}

\* urlretrieve(url, filename): what the call can do.  urlopen raises URLError
\* before any file is opened.  Else the content is written to filename, or to
\* a new temporary file when filename is empty, and the name of the file is
\* returned; when the server sends less than it announced, the file keeps
\* what was sent and ContentTooShortError is raised.
urlretrieve(url, filename) ==
    LET temps == Cardinality({k \in 1..Len(TempNames) : TempNames[k] \in DOMAIN files})
        local == IF filename # "" THEN filename ELSE TempNames[temps + 1]
        keep  == [n \in DOMAIN files \ {local} |-> files[n]]
    IN  {[raised |-> "URLError", local |-> "", files |-> files]}
        \cup {[raised |-> "", local |-> local, files |-> keep @@ (local :> c)] :
                  c \in Contents}
        \cup {[raised |-> "ContentTooShortError", local |-> local,
                files |-> keep @@ (local :> Truncated)]}

\* a kernel that has run the cell defining download, in some directory
InitDownload ==
    /\ pc = "download"
    /\ it = 0
    /\ error = ""
    /\ files \in Directories
    /\ fetched = << >>
    /\ given = Unbound /\ datafile = Unbound /\ gss = Unbound
    /\ polviews74 = Unbound /\ polviews21 = Unbound
    /\ pmf74 = Unbound /\ pmf21 = Unbound
    /\ gss_by_year = Unbound /\ mean_series = Unbound /\ polviews7 = Unbound
    /\ smooth = Unbound /\ xtab = Unbound /\ xtab_norm = Unbound
    /\ d_recode = Unbound /\ pmf = Unbound /\ by_polviews = Unbound
    /\ time_series = Unbound /\ df = Unbound /\ table = Unbound

\* download(url) that retrieves without looking for the file
download_Always(url) ==
    /\ pc = "download" /\ it < MaxCalls
    /\ it' = it + 1
    /\ \E o \in urlretrieve(url, basename(url)) :
           /\ files' = o.files
           /\ fetched' = Append(fetched, [url |-> url, local |-> o.local])
           /\ error' = o.raised
    /\ UNCHANGED << pc, given, datafile, gss, vars02, smooth, vars04 >>

\* download(url): filename = basename(url); if not exists(filename):
\* local, _ = urlretrieve(url, filename); print("Downloaded " + local).
\* error is the exception the call ended with, "" when it returned
download(url) ==
    /\ pc = "download" /\ it < MaxCalls
    /\ it' = it + 1
    /\ IF ~exists(basename(url))
       THEN \E o \in urlretrieve(url, basename(url)) :
                /\ files' = o.files
                /\ fetched' = Append(fetched, [url |-> url, local |-> o.local])
                /\ error' = o.raised
       ELSE /\ error' = ""
            /\ UNCHANGED << files, fetched >>
    /\ UNCHANGED << pc, given, datafile, gss, vars02, smooth, vars04 >>

CallDownload == \E url \in Urls : download(url)

SpecDownload == InitDownload /\ [][CallDownload]_vars

(* ------------------------------ claims --------------------------------- *)

AllMissing(s) == \A i \in 1..Len(s) : isna(s[i])

NonMissing(s) == {i \in 1..Len(s) : notna(s[i])}

\* the table the loop of the last cell has read is bound to df
LoopTableBound == (pc = "resample" /\ it >= 1) \/ pc = "done_w"

\* P(out, c, m) of every column a cell has recoded: out = c.replace(m)
ForEveryRecode(P(_, _, _)) ==
    /\ Ran("replace7") => P(polviews7, gss["polviews"], d7)
    /\ RanW("polviews3") => P(gss["polviews3"], gss["polviews"], d_polviews)
    /\ RanW("recode") => P(gss["recoded"], gss[varname], d_recode)
    /\ LoopTableBound => /\ P(df["polviews3"], df["polviews"], d_polviews)
                         /\ P(df["recoded"], df[varname], d_recode)

SomeRecode(P(_, _, _)) == ~ForEveryRecode(LAMBDA out, c, m : ~P(out, c, m))

\* P(p, s) of every Pmf that is bound: p = Pmf.from_seq(s)
ForEveryPmf(P(_, _)) ==
    /\ Ran("pmf74") => P(pmf74, polviews74)
    /\ Ran("pmf21") => P(pmf21, polviews21)
    /\ pc \in {"polviews3", "pmf_polviews3"} => P(pmf, gss[varname])
    /\ (pc = "groupby_polviews" \/ (pc = "group_pmfs" /\ it = 0))
           => P(pmf, gss["polviews3"])
    /\ (pc = "group_pmfs" /\ it >= 1 /\ error = "") => P(pmf, GroupColumn(it))

SomePmf(P(_, _)) == ~ForEveryPmf(LAMBDA p, s : ~P(p, s))

\* P(tb, frame) of every pivot table that is bound: tb = frame.pivot_table(...)
ForEveryTable(P(_, _)) ==
    /\ (pc = "plot_columns" \/ (pc = "resample" /\ it = 0)) => P(table, gss)
    /\ LoopTableBound => P(table, df)

\* P(series, frame, col) of every mean by year that is bound:
\* series = frame.groupby("year")[col].mean()
ForEveryMeanByYear(P(_, _, _)) ==
    /\ Ran("mean") => P(mean_series, gss, "polviews")
    /\ RanW("time_series") => P(time_series, gss, "recoded")

RECURSIVE SumProb(_)
SumProb(p) ==
    IF Len(p) = 0 THEN Num(0) ELSE FracAdd(Head(p).val, SumProb(Tail(p)))

\* the sum of the integer codes frame[col] holds at the rows R
RECURSIVE SumCodes(_, _, _)
SumCodes(frame, col, R) ==
    IF R = {} THEN 0
    ELSE LET r == CHOOSE x \in R : TRUE
         IN  frame[col][r].n + SumCodes(frame, col, R \ {r})

\* the rows of frame whose year is y and whose value of col is not missing
YearRows(frame, col, y) ==
    {r \in 1..Len(frame["year"]) : frame["year"][r] = y /\ notna(frame[col][r])}

YearsOf(frame) == Range(frame["year"])

GroupsOf(frame) == {g \in Range(frame["polviews3"]) : notna(g)}

\* the rows of frame of year y and group g whose recoded value is not missing
CellRows(frame, y, g) ==
    {r \in 1..Len(frame["year"]) :
        frame["year"][r] = y /\ frame["polviews3"][r] = g /\ notna(frame["recoded"][r])}

Ascending(keys) == \A i, j \in 1..Len(keys) : i < j => Less(keys[i], keys[j])

KeysOf(series) == [i \in 1..Len(series) |-> series[i].key]

RowOrders(n) == {f \in [1..n -> 1..n] : \A i, j \in 1..n : f[i] = f[j] => i = j}

Reorder(frame, f) == [c \in DOMAIN frame |-> Take(frame[c], f)]

\* frame with k more rows of year y whose other columns are missing
RECURSIVE WithMissingRows(_, _, _)
WithMissingRows(frame, y, k) ==
    IF k = 0 THEN frame
    ELSE WithMissingRows(
             [c \in DOMAIN frame |-> Append(frame[c], IF c = "year" THEN y ELSE NaN)],
             y, k - 1)

(* C1 *)

RecodeMissingIffUnmapped(out, c, m) ==
    \A i \in 1..Len(c) :
        /\ (c[i] \in DOMAIN m /\ out[i] = m[c[i]]) \/ isna(out[i])
        /\ isna(out[i]) <=> (isna(c[i]) \/ c[i] \notin DOMAIN m)

\* C1, as stated: recoding c with m yields at each position m[c[i]] or the
\* missing marker, and the output is missing iff c[i] is missing or c[i] is
\* not a key of m.
C1_Original == ForEveryRecode(RecodeMissingIffUnmapped)

RecodeKeepsUnmapped(out, c, m) ==
    /\ Len(out) = Len(c)
    /\ \A i \in 1..Len(c) :
        /\ c[i] \in DOMAIN m => out[i] = m[c[i]]
        /\ c[i] \notin DOMAIN m => out[i] = c[i]
        /\ isna(out[i]) <=> isna(c[i])

\* C1, amended: recoding c with m yields at each position m[c[i]] when c[i] is
\* a key of m and c[i] itself, unchanged, when it is not; the output is
\* missing iff c[i] is missing.
C1_RecodeKeepsUnmapped == ForEveryRecode(RecodeKeepsUnmapped)

\* a recoded column that holds a mapped code, an unmapped code and a missing one
C1_Witness ==
    SomeRecode(LAMBDA out, c, m :
        /\ \E i \in 1..Len(c) : c[i] \in DOMAIN m
        /\ \E i \in 1..Len(c) : notna(c[i]) /\ c[i] \notin DOMAIN m /\ out[i] = c[i]
        /\ \E i \in 1..Len(c) : isna(c[i]))

(* C2 *)

PmfSumsToOne(p, s) ==
    ~AllMissing(s) =>
        /\ \A i \in 1..Len(p) : FracLeq(Num(0), p[i].val)
        /\ SumProb(p) = Num(1)

\* C2: the Pmf of a sequence with at least one non-missing value has only
\* non-negative probabilities, and they sum to exactly 1.
C2_PmfSumsToOne == ForEveryPmf(PmfSumsToOne)

\* a Pmf of two values built from a sequence that also holds a missing value
C2_Witness ==
    SomePmf(LAMBDA p, s : Len(p) >= 2 /\ \E i \in 1..Len(s) : isna(s[i]))

(* C3 *)

PmfIsRelativeFrequency(p, s) ==
    /\ Range(KeysOf(p)) = {s[i] : i \in NonMissing(s)}
    /\ \A i, j \in 1..Len(p) : p[i].key = p[j].key => i = j
    /\ \A i \in 1..Len(p) :
          p[i].val.n * Cardinality(NonMissing(s))
              = Cardinality({j \in 1..Len(s) : s[j] = p[i].key}) * p[i].val.d

\* C3: the Pmf maps every value v of the sequence to count(v) / count(non-missing);
\* a missing value is in neither count, and a value that does not occur is no key.
C3_PmfIsRelativeFrequency == ForEveryPmf(PmfIsRelativeFrequency)

\* a Pmf built from a sequence with a missing value and a value that occurs twice
C3_Witness ==
    SomePmf(LAMBDA p, s :
        /\ \E i \in 1..Len(s) : isna(s[i])
        /\ \E i \in 1..Len(p) : CountIn(s, p[i].key) = 2)

(* C4 *)

\* C4: the Pmf of an empty sequence, or of one whose values are all missing,
\* has no keys, and Pmf.from_seq does not raise on it.
C4_EmptyPmf ==
    /\ ForEveryPmf(LAMBDA p, s : AllMissing(s) => Len(p) = 0)
    /\ (pc = "pmf74" /\ AllMissing(polviews74)) => error = ""
    /\ (pc = "pmf21" /\ AllMissing(polviews21)) => error = ""
    /\ (pc = "pmf_column" /\ AllMissing(gss[varname])) => error = ""
    /\ (pc = "pmf_polviews3" /\ AllMissing(gss["polviews3"])) => error = ""
    /\ (pc = "group_pmfs" /\ it >= 1 /\ AllMissing(GroupColumn(it))) => error = ""

\* the loop over the groups has built the Pmf of a group whose values are all missing
C4_Witness ==
    /\ pc = "group_pmfs" /\ it >= 1 /\ error = ""
    /\ Len(GroupColumn(it)) >= 1 /\ AllMissing(GroupColumn(it))
    /\ Len(pmf) = 0

(* C5 *)

\* SeriesGroupBy.count(): the number of non-missing values of col per group
CountByGroup(frame, groups, col) ==
    [i \in 1..Len(groups) |->
        [key |-> groups[i].key, val |-> Nobs(Take(frame[col], groups[i].idx))]]

\* C5: the per-group counts of non-missing polviews values of gss.groupby("year")
\* sum to the number of non-missing polviews values of the whole table.
C5_GroupCountsSumToTotal ==
    Ran("groupby") =>
        SumVal(CountByGroup(gss, gss_by_year, "polviews"))
            = Cardinality(NonMissing(gss["polviews"]))

\* two year groups, one of two rows, and a missing polviews value
C5_Witness ==
    /\ Ran("groupby")
    /\ Len(gss_by_year) = 2
    /\ \E i \in 1..Len(gss_by_year) : Len(gss_by_year[i].idx) = 2
    /\ ~AllMissing(gss["polviews"]) /\ \E r \in 1..Len(gss["polviews"]) : isna(gss["polviews"][r])

(* C6 *)

MeanWithinRange(series, frame, col) ==
    \A y \in YearsOf(frame) :
        LET V == {frame[col][r] : r \in YearRows(frame, col, y)}
        IN  V # {} =>
                \E i \in 1..Len(series) :
                    /\ series[i].key = y
                    /\ notna(series[i].val)
                    /\ \E lo \in V : FracLeq(lo, series[i].val)
                    /\ \E hi \in V : FracLeq(series[i].val, hi)

\* C6: the mean of every group with at least one non-missing value lies between
\* the least and the greatest of the group's non-missing values.
C6_MeanWithinRange == ForEveryMeanByYear(MeanWithinRange)

\* a year whose mean is strictly between two of its values, with a missing one beside
C6_Witness ==
    /\ Ran("mean")
    /\ \E i \in 1..Len(mean_series) :
          LET V == {gss["polviews"][r] : r \in YearRows(gss, "polviews", mean_series[i].key)}
          IN  /\ \E lo \in V : FracLess(lo, mean_series[i].val)
              /\ \E hi \in V : FracLess(mean_series[i].val, hi)

(* C7 *)

MeanOfNonMissing(series, frame, col) ==
    \A i \in 1..Len(series) :
        LET R == YearRows(frame, col, series[i].key)
        IN  IF R = {} THEN isna(series[i].val)
            ELSE /\ notna(series[i].val)
                 /\ series[i].val.n * Cardinality(R)
                        = SumCodes(frame, col, R) * series[i].val.d

\* C7: the mean of a group is the sum of its non-missing values over their
\* number, and one or two more missing values in a group leave every mean as it was.
C7_MissingNotCounted ==
    /\ ForEveryMeanByYear(MeanOfNonMissing)
    /\ Ran("mean") =>
          \A y \in YearsOf(gss) : \A k \in 1..2 :
              LET more == WithMissingRows(gss, y, k)
              IN  GroupMean(more, GroupBy(more, "year"), "polviews") = mean_series

\* a year that holds a missing value and has a mean
C7_Witness ==
    /\ Ran("mean")
    /\ \E i \in 1..Len(mean_series) :
          /\ notna(mean_series[i].val)
          /\ \E r \in 1..Len(gss["year"]) :
                gss["year"][r] = mean_series[i].key /\ isna(gss["polviews"][r])

(* C8 *)

EmptyYearIsMissing(series, frame, col) ==
    \A y \in YearsOf(frame) :
        YearRows(frame, col, y) = {} =>
            \E i \in 1..Len(series) : series[i].key = y /\ isna(series[i].val)

EmptyCellIsMissingEntry(tb, frame) ==
    \A y \in YearsOf(frame) : \A g \in GroupsOf(frame) :
        CellRows(frame, y, g) = {} =>
            /\ y \in Range(tb.index)
            /\ g \in Range(tb.columns)
            /\ isna(tb.data[<< y, g >>])

\* C8, as stated: a year, or a (year, group) cell, with no non-missing value has
\* the missing marker as its aggregate.
C8_Original ==
    /\ ForEveryMeanByYear(EmptyYearIsMissing)
    /\ ForEveryTable(EmptyCellIsMissingEntry)

EmptyCellIsMissingOrDropped(tb, frame) ==
    \A y \in YearsOf(frame) : \A g \in GroupsOf(frame) :
        CellRows(frame, y, g) = {} =>
            /\ (y \in Range(tb.index) /\ g \in Range(tb.columns))
                   => isna(tb.data[<< y, g >>])
            /\ y \notin Range(tb.index)
                   => \A h \in GroupsOf(frame) : CellRows(frame, y, h) = {}
            /\ g \notin Range(tb.columns)
                   => \A z \in YearsOf(frame) : CellRows(frame, z, g) = {}

\* C8, amended: a year with no non-missing value has the missing marker as its
\* mean by year; a (year, group) cell with no non-missing value has the missing
\* marker as its entry of the pivot table when the table has its row and its
\* column, and the table lacks a row (a column) only when every cell of that
\* year (group) is empty.
C8_EmptyGroupIsMissing ==
    /\ ForEveryMeanByYear(EmptyYearIsMissing)
    /\ ForEveryTable(EmptyCellIsMissingOrDropped)

\* a pivot table with an empty cell in a row and a column that it has
C8_Witness ==
    /\ pc = "resample" /\ it = 0
    /\ \E y \in YearsOf(gss) : \E g \in GroupsOf(gss) :
          /\ CellRows(gss, y, g) = {}
          /\ y \in Range(table.index) /\ g \in Range(table.columns)
          /\ isna(table.data[<< y, g >>])

(* C9 *)

\* C9: the keys of a grouped aggregate are in strictly ascending order, and the
\* aggregate of every reordering of the rows is the same aggregate.
C9_SortedAndOrderFree ==
    /\ Ran("groupby") => Ascending(KeysOf(gss_by_year))
    /\ ForEveryMeanByYear(LAMBDA series, frame, col :
          /\ Ascending(KeysOf(series))
          /\ \A f \in RowOrders(Len(frame["year"])) :
                LET other == Reorder(frame, f)
                IN  GroupMean(other, GroupBy(other, "year"), col) = series)
    /\ ForEveryTable(LAMBDA tb, frame :
          /\ Ascending(tb.index) /\ Ascending(tb.columns)
          /\ \A f \in RowOrders(Len(frame["year"])) :
                PivotTable(Reorder(frame, f), "recoded", "year", "polviews3") = tb)

\* the means of two years of a table whose rows come with the later year first
C9_Witness ==
    /\ Ran("mean")
    /\ Len(mean_series) = 2
    /\ gss["year"][1] = Num(2018)
    /\ notna(mean_series[1].val) /\ notna(mean_series[2].val)

(* C10 *)

\* the mean of the non-missing recoded values of the rows of year y and group g
CellMean(frame, y, g) ==
    LET R == CellRows(frame, y, g)
    IN  IF R = {} THEN NaN
        ELSE Frac(SumCodes(frame, "recoded", R), Cardinality(R))

NoDuplicates(keys) == \A i, j \in 1..Len(keys) : keys[i] = keys[j] => i = j

PivotHasEveryYear(tb, frame) ==
    /\ NoDuplicates(tb.index) /\ NoDuplicates(tb.columns)
    /\ Range(tb.index) = YearsOf(frame)
    /\ Range(tb.columns) = GroupsOf(frame)
    /\ \A y \in Range(tb.index) : \A g \in Range(tb.columns) :
          tb.data[<< y, g >>] = CellMean(frame, y, g)

\* C10, as stated: the pivot table has one row per year and one column per
\* alignment group, and the entry at (y, g) is the mean of the non-missing
\* recoded values of the rows of year y and group g.
C10_Original == ForEveryTable(PivotHasEveryYear)

PivotHasEveryYearWithData(tb, frame) ==
    /\ NoDuplicates(tb.index) /\ NoDuplicates(tb.columns)
    /\ Range(tb.index)
          = {y \in YearsOf(frame) : \E g \in GroupsOf(frame) : CellRows(frame, y, g) # {}}
    /\ Range(tb.columns)
          = {g \in GroupsOf(frame) : \E y \in YearsOf(frame) : CellRows(frame, y, g) # {}}
    /\ DOMAIN tb.data = Range(tb.index) \X Range(tb.columns)
    /\ \A y \in Range(tb.index) : \A g \in Range(tb.columns) :
          tb.data[<< y, g >>] = CellMean(frame, y, g)

\* C10, amended: the pivot table has one row per year that has a non-missing
\* recoded value in a row with a non-missing group, and one column per group
\* that has one; the entry at (y, g) is the mean of the non-missing recoded
\* values of the rows of year y and group g, and missing when there is none.
C10_PivotIsMeanTable == ForEveryTable(PivotHasEveryYearWithData)

\* a pivot table with an entry that is the mean 1/2 of two rows
C10_Witness ==
    /\ pc = "resample" /\ it = 0
    /\ \E y \in Range(table.index) : \E g \in Range(table.columns) :
          /\ Cardinality(CellRows(gss, y, g)) = 2
          /\ table.data[<< y, g >>] = Frac(1, 2)

(* C11 *)

\* P(tb, column) of every normalized cross tabulation that is bound:
\* tb = pd.crosstab(gss["year"], column, normalize="index")
ForEveryXtabNorm(P(_, _)) ==
    /\ pc \in {"replace7", "values7", "xtab_norm7"} => P(xtab_norm, gss["polviews"])
    /\ pc \in {"plot_xtab", "done"} => P(xtab_norm, polviews7)

\* the rows of gss of year y whose value of column is c
CoRows(column, y, c) ==
    {r \in 1..Len(column) : gss["year"][r] = y /\ column[r] = c}

\* the rows of gss of year y whose value of column is not missing
AnsweredRows(column, y) ==
    {r \in 1..Len(column) : gss["year"][r] = y /\ notna(column[r])}

CountsOfCoRows(tb, column) ==
    /\ Ascending(tb.columns)
    /\ Range(tb.columns) = {column[r] : r \in NonMissing(column)}
    /\ \A y \in Range(tb.index) : \A c \in Range(tb.columns) :
          tb.data[<< y, c >>] = Cardinality(CoRows(column, y, c))

RECURSIVE SumRow(_, _, _)
SumRow(tb, y, k) ==
    IF k = 0 THEN Num(0)
    ELSE FracAdd(tb.data[<< y, tb.columns[k] >>], SumRow(tb, y, k - 1))

RowsSumToOne(tb, column) ==
    \A y \in Range(tb.index) :
        LET total == Cardinality(AnsweredRows(column, y))
        IN  total # 0 =>
                /\ \A c \in Range(tb.columns) :
                      tb.data[<< y, c >>].n * total
                          = Cardinality(CoRows(column, y, c)) * tb.data[<< y, c >>].d
                /\ SumRow(tb, y, Len(tb.columns)) = Num(1)

\* C12: in pd.crosstab(..., normalize="index") every row whose count total is
\* not zero has the entries count / row total, and they sum to exactly 1.
C12_RowsSumToOne == ForEveryXtabNorm(RowsSumToOne)

\* a normalized row with two entries that are not zero, beside another row
C12_Witness ==
    /\ pc = "replace7"
    /\ Len(xtab_norm.index) = 2
    /\ \E y \in Range(xtab_norm.index) :
          Cardinality({c \in Range(xtab_norm.columns) :
                          xtab_norm.data[<< y, c >>] = Frac(1, 2)}) = 2

(* C13 *)

\* the years of gss in which every value of column is missing
UnansweredYears(column) == {y \in YearsOf(gss) : AnsweredRows(column, y) = {}}

ZeroRowIsMissingRow(tb, column) ==
    \A y \in UnansweredYears(column) :
        /\ y \in Range(tb.index)
        /\ \A c \in Range(tb.columns) : isna(tb.data[<< y, c >>])

ZeroRowIsNoRow(tb, column) ==
    /\ \A y \in UnansweredYears(column) : y \notin Range(tb.index)
    /\ \A y \in Range(tb.index) :
          /\ \A c \in Range(tb.columns) : notna(tb.data[<< y, c >>])
          /\ \E c \in Range(tb.columns) : tb.data[<< y, c >>] # Num(0)

XValues(s) == {s[i].key : i \in 1..Len(s)}

\* the call of make_lowess from the prompt has ended, with or without a curve
LowessReturned == pc = "returned"

LowessEnded == LowessReturned \/ (pc = "make_lowess" /\ error # "")

\* C14: a call of make_lowess with a series of fewer than 2 distinct x-values
\* ends in InsufficientDataError, and never returns a curve.
C14_FewPointsRaise ==
    (LowessEnded /\ Cardinality(XValues(given)) < 2)
        => (error = "InsufficientDataError" /\ ~LowessReturned)

(* C15 *)

\* the x-values of the rows of a series whose y is not missing, in ascending x
XOfNonMissing(s) == SortedSeqOf({s[i].key : i \in {j \in 1..Len(s) : notna(s[j].val)}})

\* C15 (as stated): the curve make_lowess returns is in non-decreasing x and
\* its x-values are those of the series given, as many as the series has
\* rows, also when some y are missing.
C15_Original ==
    LowessReturned =>
        /\ \A i, j \in 1..Len(smooth) : i < j => ~Less(smooth[j].key, smooth[i].key)
        /\ Len(smooth) = Len(given)
        /\ XValues(smooth) = XValues(given)

\* C15, amended: the curve make_lowess returns is in ascending x, and its
\* x-values are those of the rows of the series given whose y is not
\* missing, one point for each.
C15_CurveOverNonMissing ==
    LowessReturned => KeysOf(smooth) = XOfNonMissing(given)

\* a curve of three points returned for a series of four rows in descending x,
\* one of them with a missing y
C15_Witness ==
    /\ LowessReturned
    /\ Len(given) = 4 /\ Len(smooth) = 3
    /\ Less(given[2].key, given[1].key)
    /\ \E i \in 1..Len(given) : isna(given[i].val)

(* C16 *)

\* the rows of s are in strictly ascending x and none of its y is missing
Increasing(s) ==
    /\ Ascending(KeysOf(s))
    /\ \A i \in 1..Len(s) : notna(s[i].val)

\* s is on the line y = a * x + b for some a and b in the bounds
OnLine(s, a, b) == \A i \in 1..Len(s) : s[i].val = Num(a * s[i].key.n + b)

\* C16: given at least 2 points of a line y = a * x + b in strictly ascending
\* x, make_lowess returns a * x + b at every x given.
C16_LineIsFixed ==
    (LowessReturned /\ Increasing(given) /\ Len(given) >= 2) =>
        \A a \in 0..MaxSlope : \A b \in 0..MaxIntercept :
            OnLine(given, a, b) => (KeysOf(smooth) = KeysOf(given) /\ OnLine(smooth, a, b))

\* the curve returned for six points of a line with a slope, where every
\* local regression has three points with a positive weight
C16_Witness ==
    /\ LowessReturned
    /\ Increasing(given) /\ Len(given) = 6
    /\ OnLine(given, 2, 1) /\ OnLine(smooth, 2, 1)
    /\ \A i \in 1..6 : Cardinality(Weighted(given, i, [q \in 1..6 |-> 1])) = 3

(* C17 *)

\* P(out, c, m) of every recoded column whose counts a cell displays with
\* value_counts(dropna=False): out = c.replace(m)
ForEveryCheckedRecode(P(_, _, _)) ==
    /\ RanW("polviews3") => P(gss["polviews3"], gss["polviews"], d_polviews)
    /\ RanW("recode") => P(gss["recoded"], gss[varname], d_recode)

\* the rows of c that hold a code without an entry in m
Unmapped(c, m) == {i \in 1..Len(c) : notna(c[i]) /\ c[i] \notin DOMAIN m}

\* the values m recodes to
Targets(m) == {m[k] : k \in DOMAIN m}

\* the sum of the counts displayed under the keys that satisfy Q
Displayed(out, Q(_)) == SumVal(SelectSeq(ValueCountsAll(out), LAMBDA e : Q(e.key)))

\* the display counts the unmapped values apart from the missing ones: under
\* the keys that m does not recode to, and under the missing key only the
\* values that were missing before
CountsTellUnmapped(out, c, m) ==
    /\ Displayed(out, LAMBDA k : notna(k) /\ k \notin Targets(m)) = Cardinality(Unmapped(c, m))
    /\ Displayed(out, isna) = Cardinality({i \in 1..Len(c) : isna(c[i])})

\* the cells that recode have not raised
RecodeNeverRaises == pc \in {"polviews3", "recode"} => error = ""

NoCollision(c, m) == \A i \in Unmapped(c, m) : c[i] \notin Targets(m)

CountsTellUnmappedUnlessCollision(out, c, m) ==
    /\ NoCollision(c, m) => CountsTellUnmapped(out, c, m)
    /\ Displayed(out, isna) = Cardinality({i \in 1..Len(c) : isna(c[i])})
    /\ \A i \in Unmapped(c, m) : Displayed(out, LAMBDA k : k = c[i]) >= 1

LoopKey == IF pc = "done_w" THEN Keys[Len(Keys)] ELSE Keys[it]

\* P(frame, loaded) of every table in memory and the table of the file it
\* was read from
ForEveryFrame(P(_, _)) ==
    /\ (Ran("read_hdf") \/ RanW("read_hdf_w")) => P(gss, datafile["gss0"])
    /\ LoopTableBound => P(df, datafile[LoopKey])

Unmodified(frame, loaded) == frame = loaded

\* C18 (as stated): no cell and no call changes a table that was loaded: it
\* has the columns and the values it was read with, also after
\* plot_by_polviews(df, varname).
C18_Original == ForEveryFrame(Unmodified)

\* the columns a recoding adds to the table it is given
AddedColumns == {"polviews3", "recoded"}

OnlyColumnsAdded(frame, loaded) ==
    /\ DOMAIN loaded \subseteq DOMAIN frame
    /\ DOMAIN frame \subseteq DOMAIN loaded \cup AddedColumns
    /\ \A c \in DOMAIN loaded : frame[c] = loaded[c]
    /\ \A c \in DOMAIN frame : Len(frame[c]) = Len(loaded["year"])

\* C18, amended: a table that was loaded keeps every column it was read with,
\* with the same values in the same rows; the recoding cells and
\* plot_by_polviews add the columns polviews3 and recoded to it, and nothing
\* else.
C18_OnlyColumnsAdded == ForEveryFrame(OnlyColumnsAdded)

\* after plot_by_polviews(df, varname) without exception, df has the two
\* added columns, and recoded differs from the column it recodes
C18_Witness ==
    /\ LoopTableBound /\ error = ""
    /\ DOMAIN df = DOMAIN datafile[LoopKey] \cup AddedColumns
    /\ df["recoded"] # df[varname]
    /\ df[varname] = datafile[LoopKey][varname]

(* C19 *)

\* the number of tables the loop over the resamplings has read
LoopCount == IF pc = "done_w" THEN Len(Keys) ELSE it

\* what one run of plot_by_polviews on the table under key leaves, when
\* nothing of an earlier run reaches it
RunOf(key) == plot_by_polviews(datafile[key], varname)

\* C19: the loop reads gss0, gss1 and gss2 in this order, each one after the
\* run on the one before has ended; what a run leaves (the recoded table, the
\* pivot table, the curve drawn last) is what the run computes from the table
\* it read, whatever the runs before have left.
C19_OneRunPerResample ==
    LoopTableBound =>
        /\ DOMAIN datafile = {<< "gss0", "gss1", "gss2" >>[k] : k \in 1..LoopCount}
        /\ df = RunOf(<< "gss0", "gss1", "gss2" >>[LoopCount]).gss
        /\ table = RunOf(<< "gss0", "gss1", "gss2" >>[LoopCount]).table
        /\ error = "" =>
              [raised |-> "", curve |-> smooth] \in plot_columns_lowess(table, columns, << >>)

\* the second run has ended without exception on a table other than the
\* first one, and has left another pivot table than the first run
C19_Witness ==
    /\ pc = "resample" /\ it = 2 /\ error = ""
    /\ datafile["gss1"] # datafile["gss0"]
    /\ table # RunOf("gss0").table
    /\ df # RunOf("gss0").gss

(* C20 *)

\* P(val, frame, R) of every mean of the recoded column that is bound: val is
\* the mean over the rows R of frame, the rows of a year or of a year and a
\* group whose recoded value is not missing
ForEveryRecodedMean(P(_, _, _)) ==
    /\ RanW("time_series") =>
          \A i \in 1..Len(time_series) :
              P(time_series[i].val, gss, YearRows(gss, "recoded", time_series[i].key))
    /\ ForEveryTable(LAMBDA tb, frame :
          \A y \in Range(tb.index) : \A g \in Range(tb.columns) :
              P(tb.data[<< y, g >>], frame, CellRows(frame, y, g)))

\* val is the share of the rows of R recoded to 1, a number from 0 to 1
ShareOfOnes(val, frame, R) ==
    /\ notna(val)
    /\ val = Frac(Cardinality({r \in R : frame["recoded"][r] = Num(1)}), Cardinality(R))
    /\ FracLeq(Num(0), val) /\ FracLeq(val, Num(1))

MeanIsShareOfOnes(val, frame, R) == R # {} => ShareOfOnes(val, frame, R)

\* C20 (as stated): the mean of the recoded column over a group with a
\* non-missing recoded value is the number of values recoded to 1 over the
\* number of non-missing recoded values, from 0 to 1, whatever raw codes the
\* column holds.
C20_Original == ForEveryRecodedMean(MeanIsShareOfOnes)

\* every raw code of the rows R has an entry in the recode map
AllMapped(frame, R) == \A r \in R : frame[varname][r] \in DOMAIN d_recode

MeanIsShareOfOnesWhenMapped(val, frame, R) ==
    R # {} =>
        /\ notna(val)
        /\ val = Frac(SumCodes(frame, "recoded", R), Cardinality(R))
        /\ AllMapped(frame, R) => ShareOfOnes(val, frame, R)

\* C20, amended: the mean of the recoded column over a group with a
\* non-missing recoded value is the sum of the non-missing recoded values over
\* their number; when every raw code of the group has an entry in the map it
\* is the number of values recoded to 1 over the number of non-missing
\* recoded values, from 0 to 1.
C20_MeanIsShareWhenMapped == ForEveryRecodedMean(MeanIsShareOfOnesWhenMapped)

\* a year with two mapped codes, one of them recoded to 1 and the other to 0,
\* whose mean is 1/2
C20_Witness ==
    /\ RanW("time_series")
    /\ \E i \in 1..Len(time_series) :
          LET R == YearRows(gss, "recoded", time_series[i].key)
          IN  /\ Cardinality(R) = 2 /\ AllMapped(gss, R)
              /\ \E r \in R : gss["recoded"][r] = Num(0)
              /\ time_series[i].val = Frac(1, 2)

(* C22 *)

SixRows ==
    ExampleTable(<< << 1974, 1 >>, << 1974, 2 >>, << 1974, 2 >>,
                    << 2018, 4 >>, << 2018, 4 >>, << 2018, 6 >> >>)

\* C22: on the six rows (1974,1), (1974,2), (1974,2), (2018,4), (2018,4),
\* (2018,6) the Pmf of the responses of 1974 is {1: 1/3, 2: 2/3} and the mean
\* by year is {1974: 5/3, 2018: 14/3}.
C22_SixRowExample ==
    gss = SixRows =>
        /\ Ran("pmf74") =>
              pmf74 = << [key |-> Num(1), val |-> Frac(1, 3)],
                         [key |-> Num(2), val |-> Frac(2, 3)] >>
        /\ Ran("mean") =>
              mean_series = << [key |-> Num(1974), val |-> Frac(5, 3)],
                               [key |-> Num(2018), val |-> Frac(14, 3)] >>

\* the notebook has run to its end on the six rows
C22_Witness ==
    /\ gss = SixRows /\ pc = "done" /\ error = ""
    /\ Len(pmf74) = 2 /\ Len(mean_series) = 2

(* C23 *)

ThreeRows == ExampleTable(<< << 1974, 1 >>, << 1974, 2 >>, << 2018, 1 >> >>)

\* the entries row y of a table carries, by column
RowOf(tb, y) ==
    [c \in {k \in Range(tb.columns) : << y, k >> \in DOMAIN tb.data} |-> tb.data[<< y, c >>]]

\* the cross tabulation of year and polviews, normalized by row, is bound
XtabNormOfPolviews == pc \in {"replace7", "values7", "xtab_norm7"}

\* C23 (as stated): the row-normalized cross tabulation of year = [1974, 1974,
\* 2018] against response = [1, 2, 1] has the row 1974 = {1: 1/2, 2: 1/2} and
\* the row 2018 = {1: 1}, an entry for response 1 only.
C23_Original ==
    (gss = ThreeRows /\ XtabNormOfPolviews) =>
        /\ RowOf(xtab_norm, Num(1974)) = (Num(1) :> Frac(1, 2)) @@ (Num(2) :> Frac(1, 2))
        /\ RowOf(xtab_norm, Num(2018)) = (Num(1) :> Num(1))

\* C23, amended: the row-normalized cross tabulation of year = [1974, 1974,
\* 2018] against response = [1, 2, 1] has the row 1974 = {1: 1/2, 2: 1/2} and
\* the row 2018 = {1: 1, 2: 0}: every row has an entry for every response
\* that occurs, 0 where the year has no such row.
C23_ThreeRowExample ==
    (gss = ThreeRows /\ XtabNormOfPolviews) =>
        /\ xtab_norm.index = << Num(1974), Num(2018) >>
        /\ xtab_norm.columns = << Num(1), Num(2) >>
        /\ RowOf(xtab_norm, Num(1974)) = (Num(1) :> Frac(1, 2)) @@ (Num(2) :> Frac(1, 2))
        /\ RowOf(xtab_norm, Num(2018)) = (Num(1) :> Num(1)) @@ (Num(2) :> Num(0))

\* the normalized cross tabulation of the three rows is bound
C23_Witness ==
    /\ gss = ThreeRows /\ XtabNormOfPolviews /\ error = ""
    /\ DOMAIN RowOf(xtab_norm, Num(2018)) = {Num(1), Num(2)}

(* C24 *)

\* the table plot_by_polviews builds from frame when the module-level maps
\* d_polviews and d_recode are dp and dr
TableWith(frame, var, dp, dr) ==
    LET f1 == SetColumn(frame, "polviews3", Replace(frame["polviews"], dp))
        f2 == SetColumn(f1, "recoded", Replace(f1[var], dr))
    IN  PivotTable(f2, "recoded", "year", "polviews3")

\* the first run of the loop has ended: plot_by_polviews has run on the table
\* under gss0, which the cells before the loop have run on as well
SecondRunOnGss0 == pc = "resample" /\ it = 1

\* two runs on equal inputs that return, return equal outputs: the recoding
\* and the pivot table of the cells and those of plot_by_polviews on the same
\* table, and every curve make_lowess can return for the series it was given
EqualRunsAgree ==
    /\ SecondRunOnGss0 =>
          /\ df = gss
          /\ table = PivotTable(gss, "recoded", "year", "polviews3")
    /\ pc = "pivot" =>
          \A o \in make_lowess(time_series) : o.raised = "" => o.curve = smooth
    /\ pc = "xtab" =>
          \A o \in make_lowess(mean_series) : o.raised = "" => o.curve = smooth

\* the table of the loop is the one plot_by_polviews builds whatever recode
\* map the module-level name d_recode holds
TableWhateverRecodeMap ==
    LoopTableBound =>
        \A m \in RecodeMaps : TableWith(datafile[LoopKey], varname, d_polviews, m) = table

\* C24 (as stated): every component returns equal outputs on equal inputs and
\* depends on nothing but its arguments; plot_by_polviews(gss, varname) builds
\* the same table whatever the module-level d_recode is.
C24_Original == EqualRunsAgree /\ TableWhateverRecodeMap

\* the table of the loop is a function of the table read, varname and the
\* module-level maps d_polviews and d_recode
TableOfArgumentsAndMaps ==
    LoopTableBound =>
        table = TableWith(datafile[LoopKey], varname, d_polviews, d_recode)

\* C24, amended: every component returns equal outputs on equal inputs when
\* the module-level recode maps are the same; plot_by_polviews(gss, varname)
\* reads d_polviews and d_recode from the module, and the table it builds is a
\* function of gss, varname and these two maps.
C24_PureGivenMaps == EqualRunsAgree /\ TableOfArgumentsAndMaps

\* plot_by_polviews has run without exception on the table the cells have run
\* on, and another recode map would have given another table
C24_Witness ==
    /\ SecondRunOnGss0 /\ error = ""
    /\ df = gss
    /\ \E m \in RecodeMaps : TableWith(datafile["gss0"], varname, d_polviews, m) # table

(* C25 *)

\* the rows of s, the last one first
Reversed(s) == [i \in 1..Len(s) |-> s[Len(s) + 1 - i]]

\* the reorderings of the series given that are compared: every order of a
\* short series, and the reverse order of a longer one
Reorderings ==
    IF Len(given) <= MaxPermuted
    THEN {Take(given, f) : f \in Orders(Len(given))}
    ELSE {given, Reversed(given)}

\* C25: make_lowess returns for every reordering of the rows of a series the
\* curve it returns for the series, the same (x, y) pairs in the same order.
C25_OrderOfRowsIsFree ==
    LowessReturned =>
        /\ [raised |-> "", curve |-> smooth] \in make_lowess(given)
        /\ \A other \in Reorderings : make_lowess(other) = make_lowess(given)

\* a curve of three points that differ in y, returned for a series whose rows
\* are neither in ascending nor in descending x
C25_Witness ==
    /\ LowessReturned
    /\ Len(given) = 3 /\ Len(smooth) = 3
    /\ Less(given[1].key, given[2].key) /\ Less(given[3].key, given[2].key)
    /\ smooth[1].val # smooth[2].val /\ smooth[2].val # smooth[3].val
    /\ Ascending(KeysOf(smooth))

(* C26 *)

\* d7 lacks a code that polviews holds
D7LacksACode == Unmapped(gss["polviews"], d7) # {}

\* polviews holds a code that d7 has
D7HasACode == \E i \in 1..Len(gss["polviews"]) : gss["polviews"][i] \in DOMAIN d7

\* values(polviews7) has returned
ValuesReturned == Ran("values7")

\* the exception that stops values(polviews7) is a TypeError
OnlyTypeError == (pc = "values7" /\ error # "") => error = "TypeError"

RecodesBeforeAggregates ==
    /\ RanW("time_series") =>
          /\ "recoded" \in DOMAIN gss
          /\ time_series = GroupMean(gss, GroupBy(gss, "year"), "recoded")
    /\ ForEveryTable(LAMBDA tb, frame :
          /\ {"polviews3", "recoded"} \subseteq DOMAIN frame
          /\ frame["polviews3"] = Replace(frame["polviews"], d_polviews)
          /\ frame["recoded"] = Replace(frame[varname], d_recode)
          /\ tb = PivotTable(frame, "recoded", "year", "polviews3"))
    /\ pc \in {"plot_xtab", "done"} =>
          /\ polviews7 = Replace(gss["polviews"], d7)
          /\ xtab_norm = Normalize_Index(Crosstab(gss["year"], polviews7))

\* the columns of a table that is bound, each as a series
ColumnsOf(tb) ==
    IF tb = Unbound THEN {} ELSE {TableColumn(tb, c) : c \in Range(tb.columns)}

\* the aggregates that are complete: the means by year and the columns of the
\* pivot table and of the normalized cross tabulation
CompleteAggregates ==
    {mean_series, time_series} \cup ColumnsOf(table) \cup ColumnsOf(xtab_norm)

\* a step that binds a new curve has smoothed a complete aggregate
SmoothsAggregates ==
    smooth' # smooth =>
        \E series \in CompleteAggregates' :
            [raised |-> "", curve |-> smooth'] \in make_lowess(series)

\* the cells and loops that smooth
Smoothers == {"lowess", "plot_time_series", "plot_columns", "plot_xtab"}

\* no step writes back: the file keeps what it holds, a frame keeps every
\* column it has, a recoded column and an aggregate stay as they are while a
\* curve is drawn from them, and the table the loop has read is in df as read
NoWriteBack ==
    /\ \A k \in DOMAIN datafile : k \in DOMAIN datafile' /\ datafile'[k] = datafile[k]
    /\ \A c \in DOMAIN gss : c \in DOMAIN gss' /\ gss'[c] = gss[c]
    /\ Ran("replace7") => polviews7' = polviews7
    /\ pc \in Smoothers =>
          /\ mean_series' = mean_series /\ time_series' = time_series
          /\ table' = table /\ xtab_norm' = xtab_norm
    /\ LoopTableBound' =>
          \A c \in DOMAIN datafile'[LoopKey'] : df'[c] = datafile'[LoopKey'][c]

\* C27: the recoded columns are computed before the aggregates that read
\* them, a curve is only ever drawn from a complete aggregate or a column of
\* one, and no step writes into what an earlier stage has read or left.
C27_DataFlowsForward ==
    /\ []RecodesBeforeAggregates
    /\ [][SmoothsAggregates /\ NoWriteBack]_vars

\* the second run of the loop has ended without exception: it has read a
\* table, recoded it, built the pivot table and drawn a curve of its last
\* column, while gss holds the recoded columns of the cells
C27_Witness ==
    /\ pc = "resample" /\ it = 2 /\ error = ""
    /\ smooth \in {o.curve : o \in make_lowess(TableColumn(table, Str("Liberal")))}
    /\ df["recoded"] # df[varname]
    /\ {"polviews3", "recoded"} \subseteq DOMAIN gss

(* C28 *)

\* the calls of urlretrieve that have written a local file
Written == {i \in 1..Len(fetched) : fetched[i].local # ""}

\* a call that retrieves does so when no local file has the basename of its URL
FetchOnlyIfAbsent ==
    fetched' # fetched => ~exists(basename(fetched'[Len(fetched')].url))

\* a URL that has been fetched is not fetched again, and the file written for
\* it stays as it is
FetchedStays ==
    \A i \in Written :
        /\ fetched[i].local \in DOMAIN files'
        /\ files'[fetched[i].local] = files[fetched[i].local]
        /\ fetched' # fetched => fetched'[Len(fetched')].url # fetched[i].url

\* no URL has been fetched twice
EachUrlOnce ==
    \A i, j \in Written : fetched[i].url = fetched[j].url => i = j

FileUrls == {url \in Urls : basename(url) # ""}

\* a fetched URL that names a file is not fetched again, nor is another URL
\* of the same basename; no file of the directory is ever changed or removed
FetchedFileStays ==
    /\ \A n \in DOMAIN files : n \in DOMAIN files' /\ files'[n] = files[n]
    /\ \A i \in Written :
          (fetched[i].url \in FileUrls /\ fetched' # fetched) =>
              basename(fetched'[Len(fetched')].url) # basename(fetched[i].url)

\* no file has been written twice, and a file that a URL names has been
\* written under the basename of that URL
EachFileOnce ==
    /\ \A i, j \in Written : fetched[i].local = fetched[j].local => i = j
    /\ \A i \in Written :
          fetched[i].url \in FileUrls => fetched[i].local = basename(fetched[i].url)

Scale == {Num(k) : k \in 1..7}

\* the three alignment groups
Alignments == {Str("Liberal"), Str("Moderate"), Str("Conservative")}

\* the group the claim gives the code k of the scale
AlignmentOf(k) ==
    IF k <= 3 THEN Str("Liberal") ELSE IF k = 4 THEN Str("Moderate") ELSE Str("Conservative")

\* P(out, c) of every polviews3 column that is bound: out = c.replace(d_polviews)
ForEveryPolviews3(P(_, _)) ==
    /\ RanW("polviews3") => P(gss["polviews3"], gss["polviews"])
    /\ LoopTableBound => P(df["polviews3"], df["polviews"])

\* every row with a code of the scale is in the group of its code, and the
\* counts displayed for the three groups sum to the number of these rows
OneGroupPerRow(out, c) ==
    /\ \A i \in 1..Len(c) :
          c[i] \in Scale => (out[i] \in Alignments /\ out[i] = AlignmentOf(c[i].n))
    /\ \A g \in Alignments :
          Displayed(out, LAMBDA k : k = g)
              = Cardinality({i \in 1..Len(c) : c[i] \in Scale /\ AlignmentOf(c[i].n) = g})
    /\ Displayed(out, LAMBDA k : k \in Alignments)
          = Cardinality({i \in 1..Len(c) : c[i] \in Scale})

\* C29: d_polviews has an entry for each of the codes 1..7 and for no other:
\* 1, 2, 3 are Liberal, 4 is Moderate, 5, 6, 7 are Conservative; every row with
\* a code in 1..7 is in exactly one of the three groups, and the counts of the
\* three groups sum to the number of these rows.
C29_ThreeGroups ==
    /\ DOMAIN d_polviews = Scale
    /\ \A k \in 1..7 : d_polviews[Num(k)] = AlignmentOf(k)
    /\ ForEveryPolviews3(OneGroupPerRow)

\* a table with rows of all three groups, two of them in one group
C29_Witness ==
    /\ RanW("polviews3")
    /\ \A g \in Alignments : Displayed(gss["polviews3"], LAMBDA k : k = g) >= 1
    /\ Displayed(gss["polviews3"], LAMBDA k : k = Str("Conservative")) = 2
====
